---------------------------- MODULE Spec2Model ----------------------------
(***************************************************************************)
(* The dual-deck playback scheduler of AURA (src/WAVEMIND.py, class        *)
(* AuraApp): two QMediaPlayer decks, the crossfade session driven by two   *)
(* QTimers, and next/previous/shuffle/loop selection.                      *)
(*                                                                         *)
(* Every handler of AuraApp runs to completion on the Qt event loop, so    *)
(* each handler is one action.  A handler is written as a function from    *)
(* the application state (a record with one field per attribute) to the    *)
(* state it leaves behind; helpers it calls are applied in code order.     *)
(*                                                                         *)
(* Numbers.  Times are milliseconds.  master_volume holds the slider value *)
(* val in 0..100 (the code stores val/100.0).  A deck volume v is held as  *)
(* the integer v * 100 * xfade_duration, which makes (1-progress)*master   *)
(* and progress*master exact: with progress = elapsed/xfade_duration they  *)
(* are (xfade_duration-elapsed)*val and elapsed*val.                       *)
(***************************************************************************)
EXTENDS Integers, Sequences, FiniteSets, TLC

VARIABLES
    active_player,    \* 0 = deck A, 1 = deck B
    master_volume,    \* slider value, 0..100
    is_crossfading,
    cross_timer,      \* TRUE while the 100 ms QTimer is running
    xfade_start_time, \* time.time() at the start of the last session, ms
    now,              \* the wall clock read by time.time(), ms
    current_playlist, \* sequence of track paths
    current_index,    \* 0-based, -1 when nothing was selected yet
    shuffle_state,
    loop_state,       \* 0 = Off, 1 = All, 2 = One
    fx_crossfade,     \* engine.state.enabled.get("Crossfade", False)
    pstate,           \* deck -> QMediaPlayer.playbackState()
    source,           \* deck -> loaded track path, NoSource when empty
    volume,           \* deck -> QAudioOutput volume (scaled, see above)
    position,         \* deck -> QMediaPlayer.position(), ms
    monitor_due,      \* ms until monitor_timer times out next
    (* src/Aftershock.py, AudioProcessor and the audio callback *)
    preset,           \* AudioProcessor.preset: key -> value in thousandths
    proc_volume,      \* AudioProcessor.master_volume in hundredths
    phase,            \* AudioProcessor.phase, see PhaseTurn
    input_level,      \* AudioProcessor.input_level, a rational
    output_level,     \* AudioProcessor.output_level, see level_out
    cb,               \* the process call in progress on the callback thread
    swaps,            \* set_preset calls the UI thread has made
    (* src/WAVEMIND.py, the effect engine, the preset table and its widgets *)
    enabled,          \* engine.state.enabled: effect name -> bool
    global_intensity, \* engine.state.global_intensity in hundredths
    wet_dry,          \* engine.state.wet_dry in hundredths
    PRESETS,          \* preset name -> [i, w, fx], i and w in hundredths
    combo,            \* current text of the preset combo box
    dial,             \* value of the intensity dial, 0..100
    mix,              \* value of the wet/dry slider, 0..100
    checked,          \* effect items of the tree whose check box is ticked
    audio_data,       \* AuraApp.audio_data, the buffer loaded for processing
    wav_sample_rate,  \* AuraApp.sample_rate, set together with audio_data
    exported,         \* what the last export handed to write_wav
    job,              \* the export in progress: AuraApp.pr and its thread
    loader,           \* the load in progress: AuraApp.ld and its thread
    core,             \* src/Aftershock.py: MainWindow.thread and the
                      \* AudioThread objects it has created
    wav               \* a buffer, the WAV file write_wav made of it and
                      \* what read_wav returned for that file

appvars == <<active_player, master_volume, is_crossfading, cross_timer,
             xfade_start_time, now, current_playlist, current_index,
             shuffle_state, loop_state, fx_crossfade, pstate, source, volume,
             position, monitor_due>>

procvars == <<preset, proc_volume, phase, input_level, output_level,
              cb, swaps>>

engvars == <<enabled, global_intensity, wet_dry, PRESETS, combo, dial, mix,
             checked>>

chainvars == <<audio_data, wav_sample_rate, exported>>

jobvars == <<job, loader>>

corevars == <<core>>
wavvars == <<wav>>

vars == <<appvars, procvars, engvars, chainvars, jobvars, corevars, wavvars>>

----------------------------------------------------------------------------
(* Program constants *)

xfade_duration == 4000
CrossInterval == 100
MonitorInterval == 500
MinXfadeTrackLen == 5000
SliderMax == 100

(* Bounds of the model *)

MaxLen == 2          \* longest playlist
QuantaPerFade == 2   \* clock steps per xfade_duration
MaxClockSteps == 3   \* the clock stops after this many steps

Quantum == xfade_duration \div QuantaPerFade
MasterLevels == {40, SliderMax}
(* (duration, position) pairs the active deck may report to the poll *)
PollSamples == {<<MinXfadeTrackLen, 2001>>,
                <<MinXfadeTrackLen + 1000, 2000>>,
                <<MinXfadeTrackLen + 1000, 2001>>}

Decks == {0, 1}
NoSource == 0
NoTime == -1
Tracks == 1 .. MaxLen
Folder(n) == [i \in 1 .. n |-> i]
Playlists == {Folder(n) : n \in 1 .. MaxLen}

VolScale == SliderMax * xfade_duration
(* master_volume as a deck volume *)
MasterVol(s) == s.master_volume * xfade_duration

----------------------------------------------------------------------------
(* The application state as one record *)

S == [active_player |-> active_player, master_volume |-> master_volume,
      is_crossfading |-> is_crossfading, cross_timer |-> cross_timer,
      xfade_start_time |-> xfade_start_time, now |-> now,
      current_playlist |-> current_playlist, current_index |-> current_index,
      shuffle_state |-> shuffle_state, loop_state |-> loop_state,
      fx_crossfade |-> fx_crossfade, pstate |-> pstate, source |-> source,
      volume |-> volume, position |-> position, monitor_due |-> monitor_due]

Commit(s) ==
    /\ active_player' = s.active_player
    /\ master_volume' = s.master_volume
    /\ is_crossfading' = s.is_crossfading
    /\ cross_timer' = s.cross_timer
    /\ xfade_start_time' = s.xfade_start_time
    /\ now' = s.now
    /\ current_playlist' = s.current_playlist
    /\ current_index' = s.current_index
    /\ shuffle_state' = s.shuffle_state
    /\ loop_state' = s.loop_state
    /\ fx_crossfade' = s.fx_crossfade
    /\ pstate' = s.pstate
    /\ source' = s.source
    /\ volume' = s.volume
    /\ position' = s.position
    /\ monitor_due' = s.monitor_due
    /\ UNCHANGED <<procvars, engvars, chainvars, jobvars, corevars, wavvars>>

----------------------------------------------------------------------------
(* The decks: QMediaPlayer and QAudioOutput as the scheduler uses them *)

current_player(s) == s.active_player
next_player(s) == 1 - s.active_player

setVolume(s, d, v) == [s EXCEPT !.volume[d] = v]
(* stop() and setSource() leave the deck stopped at position 0 *)
stop(s, d) == [s EXCEPT !.pstate[d] = "Stopped", !.position[d] = 0]
play(s, d) ==
    IF s.source[d] = NoSource THEN s ELSE [s EXCEPT !.pstate[d] = "Playing"]
pause(s, d) ==
    IF s.source[d] = NoSource THEN s ELSE [s EXCEPT !.pstate[d] = "Paused"]
setSource(s, d, t) ==
    [s EXCEPT !.source[d] = t, !.pstate[d] = "Stopped", !.position[d] = 0]

----------------------------------------------------------------------------
(* _play_current without the "not self.is_crossfading" test of its first   *)
(* branch: a track change during a session begins another session          *)
play_current_reentrant(s) ==
    IF ~(0 <= s.current_index /\ s.current_index < Len(s.current_playlist))
    THEN s
    ELSE
      LET target_path == s.current_playlist[s.current_index + 1] IN
      IF s.pstate[current_player(s)] = "Playing"
      THEN
        LET s1 == setVolume(s, next_player(s), 0)
            s2 == setSource(s1, next_player(s), target_path)
            s3 == play(s2, next_player(s))
        IN [s3 EXCEPT !.is_crossfading = TRUE,
                      !.xfade_start_time = s.now,
                      !.cross_timer = TRUE]
      ELSE
        LET s1 == [s EXCEPT !.is_crossfading = FALSE, !.cross_timer = FALSE]
            s2 == stop(stop(s1, 0), 1)
            s3 == setVolume(setVolume(s2, 0, MasterVol(s2)), 1, MasterVol(s2))
            s4 == [s3 EXCEPT !.active_player = 0]
            s5 == setSource(s4, current_player(s4), target_path)
        IN play(s5, current_player(s5))

(* _play_current whose hard start forgets self.cross_timer.stop() *)
play_current_keep_timer(s) ==
    IF ~(0 <= s.current_index /\ s.current_index < Len(s.current_playlist))
    THEN s
    ELSE
      LET target_path == s.current_playlist[s.current_index + 1] IN
      IF s.pstate[current_player(s)] = "Playing" /\ ~s.is_crossfading
      THEN
        LET s1 == setVolume(s, next_player(s), 0)
            s2 == setSource(s1, next_player(s), target_path)
            s3 == play(s2, next_player(s))
        IN [s3 EXCEPT !.is_crossfading = TRUE,
                      !.xfade_start_time = s.now,
                      !.cross_timer = TRUE]
      ELSE
        LET s1 == [s EXCEPT !.is_crossfading = FALSE]
            s2 == stop(stop(s1, 0), 1)
            s3 == setVolume(setVolume(s2, 0, MasterVol(s2)), 1, MasterVol(s2))
            s4 == [s3 EXCEPT !.active_player = 0]
            s5 == setSource(s4, current_player(s4), target_path)
        IN play(s5, current_player(s5))

(* _play_current *)

play_current(s) ==
    IF ~(0 <= s.current_index /\ s.current_index < Len(s.current_playlist))
    THEN s
    ELSE
      LET target_path == s.current_playlist[s.current_index + 1] IN
      IF s.pstate[current_player(s)] = "Playing" /\ ~s.is_crossfading
      THEN
        LET s1 == setVolume(s, next_player(s), 0)
            s2 == setSource(s1, next_player(s), target_path)
            s3 == play(s2, next_player(s))
        IN [s3 EXCEPT !.is_crossfading = TRUE,
                      !.xfade_start_time = s.now,
                      !.cross_timer = TRUE]
      ELSE
        LET s1 == [s EXCEPT !.is_crossfading = FALSE, !.cross_timer = FALSE]
            s2 == stop(stop(s1, 0), 1)
            s3 == setVolume(setVolume(s2, 0, MasterVol(s2)), 1, MasterVol(s2))
            s4 == [s3 EXCEPT !.active_player = 0]
            s5 == setSource(s4, current_player(s4), target_path)
        IN play(s5, current_player(s5))

(* _get_next_index testing idx > N instead of idx >= N *)
get_next_index_off_by_one(s, advance, r) ==
    IF Len(s.current_playlist) = 0 THEN -1
    ELSE
      LET N == Len(s.current_playlist) IN
      IF s.shuffle_state THEN r
      ELSE IF ~advance
           THEN LET idx == s.current_index - 1 IN
                IF idx < 0 THEN (IF s.loop_state = 1 THEN N - 1 ELSE 0)
                ELSE idx
           ELSE LET idx == s.current_index + 1 IN
                IF idx > N THEN (IF s.loop_state = 1 THEN 0 ELSE -1)
                ELSE idx

(* _get_next_index wrapping below the start whatever the loop mode *)
get_next_index_prev_wrap(s, advance, r) ==
    IF Len(s.current_playlist) = 0 THEN -1
    ELSE
      LET N == Len(s.current_playlist) IN
      IF s.shuffle_state THEN r
      ELSE IF ~advance
           THEN LET idx == s.current_index - 1 IN
                IF idx < 0 THEN N - 1 ELSE idx
           ELSE LET idx == s.current_index + 1 IN
                IF idx >= N THEN (IF s.loop_state = 1 THEN 0 ELSE -1)
                ELSE idx

(* _get_next_index without its empty-playlist test *)
get_next_index_no_empty_test(s, advance, r) ==
    LET N == Len(s.current_playlist) IN
    IF s.shuffle_state THEN r
    ELSE IF ~advance
         THEN LET idx == s.current_index - 1 IN
              IF idx < 0 THEN (IF s.loop_state = 1 THEN N - 1 ELSE 0)
              ELSE idx
         ELSE LET idx == s.current_index + 1 IN
              IF idx >= N THEN (IF s.loop_state = 1 THEN 0 ELSE -1)
              ELSE idx

(* _get_next_index; r is the value random.randint(0, N - 1) returns *)
get_next_index(s, advance, r) ==
    IF Len(s.current_playlist) = 0 THEN -1
    ELSE
      LET N == Len(s.current_playlist) IN
      IF s.shuffle_state THEN r
      ELSE IF ~advance
           THEN LET idx == s.current_index - 1 IN
                IF idx < 0 THEN (IF s.loop_state = 1 THEN N - 1 ELSE 0)
                ELSE idx
           ELSE LET idx == s.current_index + 1 IN
                IF idx >= N THEN (IF s.loop_state = 1 THEN 0 ELSE -1)
                ELSE idx

(* random.randint(0, N) in place of random.randint(0, N - 1) *)
RandDraws_closed(s) == 0 .. Len(s.current_playlist)

(* the values random.randint(0, N - 1) can return for the current playlist *)
RandDraws(s) ==
    IF Len(s.current_playlist) = 0 THEN {0}
    ELSE 0 .. (Len(s.current_playlist) - 1)

(* the draws of one handler run: _get_next_index calls random.randint only *)
(* with shuffle on                                                         *)
Draws(s) == IF s.shuffle_state THEN RandDraws(s) ELSE {0}

(* _trigger_crossfade_next without its Loop One branch *)
trigger_crossfade_next_no_loop_one(s, r) ==
    IF s.is_crossfading THEN s
    ELSE
      LET next_idx == get_next_index(s, TRUE, r) IN
      IF next_idx = -1 THEN s
      ELSE play_current([s EXCEPT !.current_index = next_idx])

(* _trigger_crossfade_next *)
trigger_crossfade_next(s, r) ==
    IF s.is_crossfading THEN s
    ELSE
      LET next_idx == IF s.loop_state = 2 THEN s.current_index
                      ELSE get_next_index(s, TRUE, r) IN
      IF next_idx = -1 THEN s
      ELSE play_current([s EXCEPT !.current_index = next_idx])

(* _check_xfade_trigger; dur and pos are what the active deck reports *)
check_xfade_trigger(s, dur, pos, r) ==
    IF ~s.fx_crossfade THEN s
    ELSE IF s.pstate[current_player(s)] # "Playing" THEN s
    ELSE IF s.is_crossfading THEN s
    ELSE IF dur > MinXfadeTrackLen /\ (dur - pos) < xfade_duration
         THEN trigger_crossfade_next(s, r)
         ELSE s

(* _crossfade_step fading the incoming deck by progress alone, without the *)
(* master scaling                                                          *)
crossfade_step_unscaled(s) ==
    LET elapsed == s.now - s.xfade_start_time IN
    IF elapsed >= xfade_duration
    THEN
      LET s1 == [s EXCEPT !.cross_timer = FALSE, !.is_crossfading = FALSE]
          s2 == stop(s1, current_player(s1))
          s3 == [s2 EXCEPT !.active_player = IF s2.active_player = 0 THEN 1 ELSE 0]
          s4 == setVolume(s3, current_player(s3), MasterVol(s3))
      IN setVolume(s4, next_player(s4), MasterVol(s4))
    ELSE
      LET s1 == setVolume(s, current_player(s),
                          (xfade_duration - elapsed) * s.master_volume)
      IN setVolume(s1, next_player(s1), elapsed * SliderMax)

(* _crossfade_step completing on progress > 1.0 instead of >= 1.0 *)
crossfade_step_strict(s) ==
    LET elapsed == s.now - s.xfade_start_time IN
    IF elapsed > xfade_duration
    THEN
      LET s1 == [s EXCEPT !.cross_timer = FALSE, !.is_crossfading = FALSE]
          s2 == stop(s1, current_player(s1))
          s3 == [s2 EXCEPT !.active_player = IF s2.active_player = 0 THEN 1 ELSE 0]
          s4 == setVolume(s3, current_player(s3), MasterVol(s3))
      IN setVolume(s4, next_player(s4), MasterVol(s4))
    ELSE
      LET s1 == setVolume(s, current_player(s),
                          (xfade_duration - elapsed) * s.master_volume)
      IN setVolume(s1, next_player(s1), elapsed * s1.master_volume)

(* _crossfade_step completing without swapping active_player *)
crossfade_step_noswap(s) ==
    LET elapsed == s.now - s.xfade_start_time IN
    IF elapsed >= xfade_duration
    THEN
      LET s1 == [s EXCEPT !.cross_timer = FALSE, !.is_crossfading = FALSE]
          s2 == stop(s1, current_player(s1))
          s4 == setVolume(s2, current_player(s2), MasterVol(s2))
      IN setVolume(s4, next_player(s4), MasterVol(s4))
    ELSE
      LET s1 == setVolume(s, current_player(s),
                          (xfade_duration - elapsed) * s.master_volume)
      IN setVolume(s1, next_player(s1), elapsed * s1.master_volume)

(* _crossfade_step completing without self.current_player.stop() *)
crossfade_step_no_stop(s) ==
    LET elapsed == s.now - s.xfade_start_time IN
    IF elapsed >= xfade_duration
    THEN
      LET s1 == [s EXCEPT !.cross_timer = FALSE, !.is_crossfading = FALSE]
          s3 == [s1 EXCEPT !.active_player = IF s1.active_player = 0 THEN 1 ELSE 0]
          s4 == setVolume(s3, current_player(s3), MasterVol(s3))
      IN setVolume(s4, next_player(s4), MasterVol(s4))
    ELSE
      LET s1 == setVolume(s, current_player(s),
                          (xfade_duration - elapsed) * s.master_volume)
      IN setVolume(s1, next_player(s1), elapsed * s1.master_volume)

(* _crossfade_step completing without resetting the two levels *)
crossfade_step_no_reset(s) ==
    LET elapsed == s.now - s.xfade_start_time IN
    IF elapsed >= xfade_duration
    THEN
      LET s1 == [s EXCEPT !.cross_timer = FALSE, !.is_crossfading = FALSE]
          s2 == stop(s1, current_player(s1))
      IN [s2 EXCEPT !.active_player = IF s2.active_player = 0 THEN 1 ELSE 0]
    ELSE
      LET s1 == setVolume(s, current_player(s),
                          (xfade_duration - elapsed) * s.master_volume)
      IN setVolume(s1, next_player(s1), elapsed * s1.master_volume)

(* _crossfade_step: progress = elapsed / xfade_duration, so progress >= 1.0  *)
(* is elapsed >= xfade_duration, and the two volumes are scaled as above     *)
crossfade_step(s) ==
    LET elapsed == s.now - s.xfade_start_time IN
    IF elapsed >= xfade_duration
    THEN
      LET s1 == [s EXCEPT !.cross_timer = FALSE, !.is_crossfading = FALSE]
          s2 == stop(s1, current_player(s1))
          s3 == [s2 EXCEPT !.active_player = IF s2.active_player = 0 THEN 1 ELSE 0]
          s4 == setVolume(s3, current_player(s3), MasterVol(s3))
      IN setVolume(s4, next_player(s4), MasterVol(s4))
    ELSE
      LET s1 == setVolume(s, current_player(s),
                          (xfade_duration - elapsed) * s.master_volume)
      IN setVolume(s1, next_player(s1), elapsed * s1.master_volume)

(* _stop_playback *)
stop_playback(s) == stop(stop(s, 0), 1)

(* _play_next storing the index before it tests it *)
play_next_unchecked(s, r) ==
    LET idx == get_next_index(s, TRUE, r) IN
    IF idx # -1 THEN play_current([s EXCEPT !.current_index = idx])
    ELSE stop_playback([s EXCEPT !.current_index = idx])

(* _play_next *)
play_next(s, r) ==
    LET idx == get_next_index(s, TRUE, r) IN
    IF idx # -1 THEN play_current([s EXCEPT !.current_index = idx])
    ELSE stop_playback(s)

(* _play_prev *)
play_prev(s, r) ==
    LET idx == get_next_index(s, FALSE, r) IN
    IF idx # -1 THEN play_current([s EXCEPT !.current_index = idx])
    ELSE s

(* _toggle_playback *)
toggle_playback(s) ==
    IF s.pstate[current_player(s)] = "Playing"
    THEN pause(pause(s, current_player(s)), next_player(s))
    ELSE IF s.source[current_player(s)] = NoSource THEN s
    ELSE play(s, current_player(s))

(* _on_media_status_changed without the "not self.is_crossfading" test *)
on_media_status_changed_unguarded(s, status, r) ==
    IF status = "EndOfMedia"
    THEN IF s.loop_state = 2 THEN play(s, current_player(s))
         ELSE play_next(s, r)
    ELSE s

(* _on_media_status_changed *)
on_media_status_changed(s, status, r) ==
    IF status = "EndOfMedia" /\ ~s.is_crossfading
    THEN IF s.loop_state = 2 THEN play(s, current_player(s))
         ELSE play_next(s, r)
    ELSE s

(* a playing deck d reaches the end of its track: the player goes to        *)
(* StoppedState and then reports EndOfMedia to _on_media_status_changed     *)
media_end(s, d, r) == on_media_status_changed(stop(s, d), "EndOfMedia", r)

(* _seek_release: setPosition on the active deck; the position is the deck's *)
seek_release(s) == s

(* _set_master_vol returning early during a crossfade, before it stores the *)
(* new value                                                                *)
set_master_vol_dropped(s, val) ==
    IF ~s.is_crossfading
    THEN LET s1 == [s EXCEPT !.master_volume = val] IN
         setVolume(setVolume(s1, 0, MasterVol(s1)), 1, MasterVol(s1))
    ELSE s

(* _set_master_vol *)
set_master_vol(s, val) ==
    LET s1 == [s EXCEPT !.master_volume = val] IN
    IF ~s1.is_crossfading
    THEN setVolume(setVolume(s1, 0, MasterVol(s1)), 1, MasterVol(s1))
    ELSE s1

(* dropEvent with a non-empty list of playable files *)
drop_event(s, valid) ==
    play_current([s EXCEPT !.current_playlist = valid, !.current_index = 0])

(* list.index(path): 0-based position of the first occurrence *)
IndexOf(pl, path) ==
    (CHOOSE i \in 1 .. Len(pl) :
        pl[i] = path /\ \A j \in 1 .. (i - 1) : pl[j] # path) - 1

(* _lib_dbl_click on the k-th track (1-based) of a folder *)
lib_dbl_click(s, folder, k) ==
    play_current([s EXCEPT !.current_playlist = folder,
                           !.current_index = IndexOf(folder, folder[k])])

----------------------------------------------------------------------------
(* The live block processor of Aftershock (src/Aftershock.py, class        *)
(* AudioProcessor).                                                         *)
(*                                                                         *)
(* Numbers.  Preset values are held in thousandths (bass 1.2 is 1200) and  *)
(* AudioProcessor.master_volume in hundredths.  A sample is the exact sum  *)
(* one + cos * cos(theta) + sin * sin(theta) with rational coefficients,   *)
(* theta being the pan angle of its frame, under tanh when the flag tanh   *)
(* is set; floating-point rounding is not modelled.  A block has two       *)
(* frames, for which the real FFT has the two bins 0 Hz and sample_rate/2  *)
(* and is exact in the rationals.                                          *)
(* The phase is held in units of 2*pi / (sample_rate * 1000), so that one  *)
(* sample at pan_speed Hz advances it by pan_speed in thousandths.         *)

sample_rate == 44100
PhaseTurn == sample_rate * 1000
BassLimitHz == 250
TrebleLimitHz == 4000

(* rationals <<numerator, denominator>> in lowest terms *)
RECURSIVE Gcd(_, _)
Gcd(a, b) == IF b = 0 THEN a ELSE Gcd(b, a % b)
AbsInt(x) == IF x < 0 THEN -x ELSE x
Frac(n, d) == LET g == Gcd(AbsInt(n), d) IN <<n \div g, d \div g>>
QAdd(a, b) == Frac(a[1] * b[2] + b[1] * a[2], a[2] * b[2])
QNeg(a) == <<-a[1], a[2]>>
QMul(a, b) == Frac(a[1] * b[1], a[2] * b[2])
QAbs(a) == <<AbsInt(a[1]), a[2]>>
QLess(a, b) == a[1] * b[2] < b[1] * a[2]
QMax(a, b) == IF QLess(a, b) THEN b ELSE a
Zero == <<0, 1>>

(* samples and arithmetic on them *)
Sample(q) == [one |-> q, cos |-> Zero, sin |-> Zero, tanh |-> FALSE]
SAdd(x, y) == [one |-> QAdd(x.one, y.one), cos |-> QAdd(x.cos, y.cos),
               sin |-> QAdd(x.sin, y.sin), tanh |-> FALSE]
SScale(q, x) == [one |-> QMul(q, x.one), cos |-> QMul(q, x.cos),
                 sin |-> QMul(q, x.sin), tanh |-> FALSE]
SSub(x, y) == SAdd(x, SScale(<<-1, 1>>, y))
(* x * cos(theta) and x * sin(theta) for a sample without pan terms *)
STimesCos(x) == [one |-> Zero, cos |-> x.one, sin |-> Zero, tanh |-> FALSE]
STimesSin(x) == [one |-> Zero, cos |-> Zero, sin |-> x.one, tanh |-> FALSE]
STanh(x) == [x EXCEPT !.tanh = TRUE]

(* frames and blocks.  kind is "stereo" for shape (N, 2), "mono" for shape  *)
(* (N, 1), "1d" for shape (N,) and "none" for None; a mono frame holds its  *)
(* one sample in both l and r                                               *)
NoLfo == [on |-> FALSE, phase |-> 0, depth |-> 0]
Frame(l, r) == [l |-> Sample(l), r |-> Sample(r), lfo |-> NoLfo]
Block(kind, frames) == [kind |-> kind, frames |-> frames]
None == Block("none", <<>>)
(* np.zeros((self.block_size, 2)) *)
zeros == Block("stereo", <<Frame(Zero, Zero), Frame(Zero, Zero)>>)

(* np.max(np.abs(audio[:100])) * 2.0 of an input block *)
level_in(frames) ==
    LET peak(f) == QMax(QAbs(f.l.one), QAbs(f.r.one)) IN
    QMul(<<2, 1>>, QMax(peak(frames[1]), peak(frames[2])))

(* np.max(np.abs(out[:100])) * 2.0 of the clipped output: the peak of       *)
(* values under tanh, cos and sin has no closed form here, so the meter is  *)
(* held as the frames it is taken over                                      *)
level_out(frames) == frames

(* dict.get(key, default) *)
Get(p, key, default) == IF key \in DOMAIN p THEN p[key] ELSE default
ParamKeys == <<"bass", "treble", "loudness", "spatial", "pan_depth", "pan_speed">>
ParamDefault(key) ==
    IF key \in {"bass", "treble", "loudness"} THEN 1000 ELSE 0

(* abs(x - 1.0) > 0.01 as IEEE doubles: for x the double nearest k/1000 the *)
(* difference x - 1.0 is exact, and at k = 990 and k = 1010 it exceeds the  *)
(* double 0.01 (abs(1.01 - 1.0) = 0.010000000000000009), so the test holds  *)
(* there as well as further away                                            *)
OffUnity(k) == AbsInt(k - 1000) >= 10
(* x > 0.01 for x the double nearest k/1000 *)
Above(k) == k > 10

(* np.fft.rfftfreq(block_size, 1.0 / sample_rate) for a block of two        *)
(* frames, and the bin sets of __init__                                     *)
freqs == <<0, sample_rate \div 2>>
bass_indices == {i \in 1 .. 2 : freqs[i] < BassLimitHz}
treble_indices == {i \in 1 .. 2 : freqs[i] > TrebleLimitHz}

(* one channel through rfft, the two bin gains and irfft(n = 2):            *)
(* X[1] = x1 + x2 and X[2] = x1 - x2; y1 = (X[1] + X[2]) / 2 and            *)
(* y2 = (X[1] - X[2]) / 2                                                   *)
eq_channel(x1, x2, bass, treble) ==
    LET X == <<SAdd(x1, x2), SSub(x1, x2)>>
        gain(i) == QMul(IF bass # 1000 /\ i \in bass_indices
                        THEN <<bass, 1000>> ELSE <<1, 1>>,
                        IF treble # 1000 /\ i \in treble_indices
                        THEN <<treble, 1000>> ELSE <<1, 1>>)
        Y == <<SScale(gain(1), X[1]), SScale(gain(2), X[2])>>
    IN <<SScale(<<1, 2>>, SAdd(Y[1], Y[2])), SScale(<<1, 2>>, SSub(Y[1], Y[2]))>>

(* the processor's attributes as one record *)
P == [preset |-> preset, master_volume |-> proc_volume, phase |-> phase,
      input_level |-> input_level, output_level |-> output_level]

(* The state of one process call: st the processor's attributes, indata the *)
(* caller's array, out the array being worked on, alias whether out is the  *)
(* caller's array itself, p the parameters read so far, fail the stage at   *)
(* which an exception is raised (0 for none), raised whether it was.        *)

(* an assignment to the elements of out *)
store(w, frames) ==
    [w EXCEPT !.out = frames,
              !.indata = IF w.alias THEN Block("stereo", frames) ELSE @]

(* the exception of stage k, when that is the stage to fail *)
raise(w, k) == IF ~w.raised /\ w.fail = k THEN [w EXCEPT !.raised = TRUE] ELSE w

(* "Stereo handling" and "Input Meter" *)
begin(st, indata, fail) ==
    LET w0 == [st |-> st, indata |-> indata, out |-> indata.frames,
               alias |-> indata.kind = "stereo", p |-> <<>>,
               fail |-> fail, raised |-> FALSE]
        w1 == raise(w0, 1)
        w2 == raise(w1, 2)
    IN IF w2.raised THEN w2
       ELSE [w2 EXCEPT !.st.input_level = level_in(w2.out)]

(* "Params": one self.preset.get(key, default) *)
read_param(w0, key) ==
    LET w == raise(w0, 3) IN
    IF w.raised THEN w
    ELSE [w EXCEPT !.p = [k \in DOMAIN w.p \cup {key} |->
                             IF k = key
                             THEN Get(w.st.preset, key, ParamDefault(key))
                             ELSE w.p[k]]]

(* the "FFT EQ" stage run whatever bass and treble are *)
stage_eq_always(w0) ==
    LET w == raise(w0, 4) IN
    IF w.raised THEN w
    ELSE LET f == w.out
             l == eq_channel(f[1].l, f[2].l, w.p["bass"], w.p["treble"])
             r == eq_channel(f[1].r, f[2].r, w.p["bass"], w.p["treble"])
         IN [w EXCEPT !.alias = FALSE,
                      !.out = <<[f[1] EXCEPT !.l = l[1], !.r = r[1]],
                                [f[2] EXCEPT !.l = l[2], !.r = r[2]]>>]

(* "FFT EQ", or out = audio.copy() *)
stage_eq(w0) ==
    LET w == raise(w0, 4) IN
    IF w.raised THEN w
    ELSE IF OffUnity(w.p["bass"]) \/ OffUnity(w.p["treble"])
    THEN LET f == w.out
             l == eq_channel(f[1].l, f[2].l, w.p["bass"], w.p["treble"])
             r == eq_channel(f[1].r, f[2].r, w.p["bass"], w.p["treble"])
         IN [w EXCEPT !.alias = FALSE,
                      !.out = <<[f[1] EXCEPT !.l = l[1], !.r = r[1]],
                                [f[2] EXCEPT !.l = l[2], !.r = r[2]]>>]
    ELSE [w EXCEPT !.alias = FALSE]

(* out *= loud *)
stage_loud(w0) ==
    LET w == raise(w0, 5) IN
    IF w.raised THEN w
    ELSE LET g == <<w.p["loudness"], 1000>>
             scaled(i) == [w.out[i] EXCEPT !.l = SScale(g, @), !.r = SScale(g, @)]
         IN store(w, <<scaled(1), scaled(2)>>)

(* "8D Logic": t = arange(n) / sample_rate, so frame i (from 1) has the     *)
(* phase self.phase + 2 pi pan_speed (i - 1) / sample_rate, and the phase   *)
(* kept is that of the last frame modulo 2 pi                               *)
stage_pan(w0) ==
    LET w == raise(w0, 6) IN
    IF w.raised THEN w
    ELSE IF Above(w.p["pan_depth"])
    THEN LET n_samples == Len(w.out)
             lfo_phase(i) == w.st.phase + w.p["pan_speed"] * (i - 1)
             w1 == [w EXCEPT !.st.phase = lfo_phase(n_samples) % PhaseTurn]
             panned(i) ==
                [l |-> STimesCos(w.out[i].l), r |-> STimesSin(w.out[i].r),
                 lfo |-> [on |-> TRUE, phase |-> lfo_phase(i),
                          depth |-> w.p["pan_depth"]]]
         IN store(w1, <<panned(1), panned(2)>>)
    ELSE w

(* "Spatial" *)
stage_spatial(w0) ==
    LET w == raise(w0, 7) IN
    IF w.raised THEN w
    ELSE IF AbsInt(w.p["spatial"]) > 10
    THEN LET mid(f) == SScale(<<1, 2>>, SAdd(f.l, f.r))
             side(f) == SScale(<<1000 + w.p["spatial"], 1000>>,
                               SScale(<<1, 2>>, SSub(f.l, f.r)))
             widened(i) ==
                [w.out[i] EXCEPT !.l = SAdd(mid(w.out[i]), side(w.out[i])),
                                 !.r = SSub(mid(w.out[i]), side(w.out[i]))]
         IN store(w, <<widened(1), widened(2)>>)
    ELSE w

(* out *= self.master_volume, the soft clip and the output meter *)
stage_master(w0) ==
    LET w == raise(w0, 8) IN
    IF w.raised THEN w
    ELSE LET g == <<w.st.master_volume, 100>>
             clipped(i) == [w.out[i] EXCEPT !.l = STanh(SScale(g, @)),
                                            !.r = STanh(SScale(g, @))]
             w1 == store(w, <<clipped(1), clipped(2)>>)
         IN [w1 EXCEPT !.st.output_level = level_out(w1.out)]

LastStage == 8

(* the parameter reads of "Params", in code order *)
RECURSIVE read_params(_, _)
read_params(w, keys) ==
    IF keys = <<>> THEN w
    ELSE read_params(read_param(w, Head(keys)), Tail(keys))

(* the stages after "Params" *)
compute(w) ==
    stage_master(stage_spatial(stage_pan(stage_loud(stage_eq(w)))))

(* process whose except clause returns silence *)
finish_silence(w) ==
    [st |-> w.st, indata |-> w.indata,
     result |-> IF w.raised THEN zeros ELSE Block("stereo", w.out)]

(* the return statement of the try body, or of the except clause *)
finish(w) ==
    [st |-> w.st, indata |-> w.indata,
     result |-> IF w.raised THEN w.indata ELSE Block("stereo", w.out)]

(* AudioProcessor.process; fail is the stage that raises, 0 for none *)
process(st, indata, fail) ==
    IF indata.kind = "none"
    THEN [st |-> st, indata |-> indata, result |-> zeros]
    ELSE finish(compute(read_params(begin(st, indata, fail), ParamKeys)))

(* AudioProcessor.set_preset *)
set_preset(st, params) == [st EXCEPT !.preset = params]

(* AudioProcessor.set_volume, volume in hundredths *)
set_volume(st, vol) ==
    LET lo == IF 200 < vol THEN 200 ELSE vol
    IN [st EXCEPT !.master_volume = IF 0 > lo THEN 0 ELSE lo]

(* AudioThread.audio_callback on buffers of one block; status is the        *)
(* PortAudio status flag                                                    *)
audio_callback(st, indata, status, fail) ==
    IF status THEN [st |-> st, indata |-> indata, result |-> zeros,
                    outdata |-> zeros.frames]
    ELSE LET r == process(st, indata, fail) IN
         [st |-> r.st, indata |-> r.indata, result |-> r.result,
          outdata |-> r.result.frames]

----------------------------------------------------------------------------
(* Inputs of the processor *)

MaxPhase == 300

(* AudioProcessor.__init__ *)
InitialPreset ==
    [k \in {"bass", "treble", "loudness", "spatial"} |->
        IF k = "spatial" THEN 0 ELSE 1000]

(* entries of PRESETS and parameter records at the stage thresholds *)
Preset(bass, treble, loudness, spatial) ==
    [k \in {"bass", "treble", "loudness", "spatial", "color"} |->
        CASE k = "bass" -> bass [] k = "treble" -> treble
          [] k = "loudness" -> loudness [] k = "spatial" -> spatial
          [] k = "color" -> 0]
Preset8D(bass, treble, loudness, spatial, pan_depth, pan_speed, distance) ==
    [k \in {"bass", "treble", "loudness", "spatial", "pan_depth", "pan_speed",
            "distance"} |->
        CASE k = "bass" -> bass [] k = "treble" -> treble
          [] k = "loudness" -> loudness [] k = "spatial" -> spatial
          [] k = "pan_depth" -> pan_depth [] k = "pan_speed" -> pan_speed
          [] k = "distance" -> distance]

BassGod == Preset(3000, 1000, 1500, 500)
Motion8D == Preset8D(1000, 1000, 1000, 500, 700, 120, 300)
(* every stage but the loudness at the edge of being skipped *)
NearNeutral == Preset8D(1005, 995, 1200, 10, 10, 120, 300)
(* bass at 1.01, all else neutral *)
BassEdge == Preset(1010, 1000, 1000, 0)

PresetSamples == {BassGod, Motion8D, NearNeutral, BassEdge}
VolumeSamples == {40, 250}

Half == <<1, 2>>
Quarter == <<1, 4>>
Blocks ==
    {Block("stereo", <<Frame(Half, QNeg(Quarter)), Frame(Quarter, Half)>>),
     Block("mono", <<Frame(<<1, 1>>, <<1, 1>>), Frame(Zero, Zero)>>),
     Block("1d", <<Frame(Half, Half), Frame(QNeg(Half), QNeg(Half))>>)}

Stages == 1 .. LastStage

IdleCall ==
    [pc |-> "idle", keys |-> <<>>, read_from |-> <<>>, w |-> <<>>]

ProcInit ==
    /\ preset = InitialPreset
    /\ proc_volume = 100
    /\ phase = 0
    /\ input_level = Zero
    /\ output_level = <<>>
    /\ cb = IdleCall
    /\ swaps = 0

----------------------------------------------------------------------------
(* src/WAVEMIND.py: the effect engine, the preset table and the handlers    *)
(* of the preset combo box, the intensity dial, the wet/dry slider and the  *)
(* effect tree.  Intensity and wet/dry are kept in hundredths, the unit of  *)
(* the two widgets; a list of effect names is kept as a set, since the code *)
(* only tests membership and iterates.  Preset names are written without    *)
(* their leading pictograph.                                                *)

Custom == "--- Custom / Modified ---"

(* the leaves of FEATURES, one checkable tree item each (_populate_tree) *)
effect_items ==
    {"Graphic EQ", "Parametric EQ", "Dynamic EQ", "Linear Phase EQ",
     "Tilt EQ", "Bass boost", "Treble boost", "Gain",
     "Loudness normalization", "Smart volume leveling", "Peak limiter",
     "Compressor", "Multiband compressor", "Stereo widening", "Mono downmix",
     "Mid/Side control", "Crossfeed", "Reverb", "Room reverb", "Hall reverb",
     "Plate reverb", "Trim", "Fade in", "Fade out", "Crossfade", "Stretch",
     "Warp", "Reverse playback", "AI mastering", "Stem separation",
     "Vocal isolation", "Night mode EQ", "Focus mode clarity", "8D Audio Sim",
     "Master EQ", "Limiter", "Dither", "Loudness targeting (LUFS)",
     "True peak limiting"}

PresetEntry(i, w, fx) == [i |-> i, w |-> w, fx |-> fx]

(* the reserved slot and three of the named presets of the table *)
InitialPresets ==
    (Custom :> PresetEntry(50, 50, {}))
    @@ ("Club Master" :> PresetEntry(85, 80,
            {"Bass boost", "Compressor", "Limiter", "Stereo widening",
             "Crossfade"}))
    @@ ("Loudness Wars" :> PresetEntry(95, 100,
            {"Gain", "Peak limiter", "Compressor", "Saturation",
             "Crossfade"}))
    @@ ("Sleep Mode" :> PresetEntry(40, 60,
            {"Low-pass filter", "Volume leveling", "Crossfade"}))

(* the engine, the table and the widgets as one record *)
E == [enabled |-> enabled, global_intensity |-> global_intensity,
      wet_dry |-> wet_dry, PRESETS |-> PRESETS, combo |-> combo,
      dial |-> dial, mix |-> mix, checked |-> checked]

(* EffectEngine.set_enabled and is_enabled *)
set_enabled(e, name, value) ==
    [e EXCEPT !.enabled = [k \in DOMAIN @ \cup {name} |->
                              IF k = name THEN value ELSE @[k]]]

is_enabled(e, name) ==
    IF name \in DOMAIN e.enabled THEN e.enabled[name] ELSE FALSE

(* _save_to_custom: a new dict with a new list of the enabled names *)
save_to_custom_all_keys(e) ==
    LET current_fx == DOMAIN e.enabled
    IN [e EXCEPT !.PRESETS[Custom] =
            PresetEntry(e.global_intensity, e.wet_dry, current_fx)]

save_to_custom(e) ==
    LET current_fx == {k \in DOMAIN e.enabled : e.enabled[k]}
    IN [e EXCEPT !.PRESETS[Custom] =
            PresetEntry(e.global_intensity, e.wet_dry, current_fx)]

(* _set_param(k, v): setattr, save, and the combo box put back on the slot *)
(* with its signals blocked                                                *)
set_param(e, k, v) ==
    LET t == IF k = "global_intensity" THEN [e EXCEPT !.global_intensity = v]
             ELSE [e EXCEPT !.wet_dry = v]
    IN [save_to_custom(t) EXCEPT !.combo = Custom]

(* _toggle_fx(item, col), run by tree.itemChanged after the check box of  *)
(* the item changed; every checkable item is a leaf                       *)
toggle_fx(e, item) ==
    IF item \notin effect_items THEN e
    ELSE [save_to_custom(set_enabled(e, item, item \in e.checked))
             EXCEPT !.combo = Custom]

(* the check box of an effect item changes state when it is clicked *)
click(e, item) ==
    [e EXCEPT !.checked = IF item \in @ THEN @ \ {item} ELSE @ \cup {item}]

(* _on_preset_changed(name), run by combo.currentTextChanged; the widgets *)
(* are set with their signals blocked, so no other handler runs           *)
on_preset_changed(e, name) ==
    IF name \notin DOMAIN e.PRESETS THEN e
    ELSE LET p == e.PRESETS[name]
             fx == p.fx \cap effect_items
         IN [e EXCEPT !.dial = p.i, !.mix = p.w,
                      !.global_intensity = p.i, !.wet_dry = p.w,
                      !.checked = fx,
                      !.enabled = [k \in fx |-> TRUE]]

(* positions the dial and the slider are moved to, items that are clicked *)
DialSamples == {0, 100}
MixSamples == {0, 50}
TreeSamples == {"Gain", "Crossfade"}

EngInit ==
    /\ enabled = [k \in {} |-> TRUE]
    /\ global_intensity = 72
    /\ wet_dry = 60
    /\ PRESETS = InitialPresets
    /\ combo = Custom
    /\ dial = 72
    /\ mix = 60
    /\ checked = {}

----------------------------------------------------------------------------
(* src/WAVEMIND.py: the offline effect chain.  A buffer is a sequence of   *)
(* frames, a frame a sequence of one or two samples.  A sample is the      *)
(* exact value v read from the file and the operations applied to it so    *)
(* far, each with its parameter as a rational: gains, thresholds and       *)
(* filter coefficients are irrational, so an affected sample is kept as    *)
(* the expression the code evaluates.  Sums, products and clips of plain   *)
(* values are computed.  Every operation maps finite values to finite      *)
(* values for an intensity in [0, 1].                                      *)

Plain(q) == [v |-> q, ops |-> <<>>]
Applied(x, fx, p) == [x EXCEPT !.ops = Append(@, [fx |-> fx, p |-> p])]
IsPlain(x) == x.ops = <<>>

(* x * (num / den); a finite value times 0.0 is zero, times 1.0 itself *)
Scaled(x, num, den) ==
    IF IsPlain(x) THEN Plain(QMul(x.v, Frac(num, den)))
    ELSE IF num = 0 THEN Plain(Zero)
    ELSE IF num = den THEN x
    ELSE Applied(x, "times", Frac(num, den))

(* a + b *)
Sum(a, b) ==
    IF IsPlain(a) /\ IsPlain(b) THEN Plain(QAdd(a.v, b.v))
    ELSE IF a = Plain(Zero) THEN b
    ELSE IF b = Plain(Zero) THEN a
    ELSE [v |-> a.v,
          ops |-> a.ops \o <<[fx |-> "plus", p |-> b.v]>> \o b.ops]

(* np.clip of one sample to [-lim, lim] *)
np_clip(x, lim) ==
    IF ~IsPlain(x) THEN Applied(x, "clip", lim)
    ELSE IF QLess(lim, x.v) THEN Plain(lim)
    ELSE IF QLess(x.v, QNeg(lim)) THEN Plain(QNeg(lim))
    ELSE x

(* x * db_to_lin(db), db in decibels *)
db_to_lin(x, db) == Applied(x, "db_to_lin", db)

(* one_pole_low_shelf(x, sr, freq, gain_db): the array itself at 0 dB *)
one_pole_low_shelf(x, sr, gain_db) ==
    [n \in DOMAIN x |-> [c \in DOMAIN x[n] |->
        Applied(Applied(x[n][c], "low_shelf", gain_db), "alpha",
                Frac(sr, 1))]]

(* simple_compressor(x, threshold_db, ratio) *)
simple_compressor(x, threshold_db, ratio) ==
    [n \in DOMAIN x |-> [c \in DOMAIN x[n] |->
        Applied(Applied(x[n][c], "threshold", threshold_db), "ratio", ratio)]]

(* stereo_widen(x, amount), for two channels and more *)
stereo_widen(x, amount) ==
    [n \in DOMAIN x |-> [c \in DOMAIN x[n] |->
        Applied(x[n][c], "widen", amount)]]

Channels(x) == IF x = <<>> THEN 1 ELSE Len(x[1])

(* The arrays of one apply_chain call: y, the caller's array dry, and    *)
(* whether they are one object.  An in-place operation writes the object *)
(* y names; an assignment to y binds it to a new array.                  *)
in_place(w, frames) ==
    [w EXCEPT !.y = frames, !.dry = IF w.alias THEN frames ELSE @]

rebound(w, frames) == [w EXCEPT !.y = frames, !.alias = FALSE]

(* dry = audio; y = audio.copy() *)
chain_copy_shared(audio) == [y |-> audio, dry |-> audio, alias |-> TRUE]

chain_copy(audio) == [y |-> audio, dry |-> audio, alias |-> FALSE]

(* y *= db_to_lin(-6.0 + 18.0 * I) *)
chain_gain(e, w) ==
    IF is_enabled(e, "Gain")
    THEN in_place(w, [n \in DOMAIN w.y |-> [c \in DOMAIN w.y[n] |->
             db_to_lin(w.y[n][c], Frac(18 * e.global_intensity - 600, 100))]])
    ELSE w

(* y = one_pole_low_shelf(y, sr, 120.0, 4.0 * I) *)
chain_bass(e, w, sr) ==
    IF ~is_enabled(e, "Bass boost") THEN w
    ELSE IF 4 * e.global_intensity = 0 THEN w
    ELSE rebound(w, one_pole_low_shelf(w.y, IF sr > 1 THEN sr ELSE 1,
                                       Frac(4 * e.global_intensity, 100)))

(* y = simple_compressor(y, -12.0 - (6.0*I), 2.5 + I) *)
chain_compressor(e, w) ==
    IF is_enabled(e, "Compressor")
    THEN rebound(w, simple_compressor(w.y,
                        Frac(-1200 - 6 * e.global_intensity, 100),
                        Frac(250 + e.global_intensity, 100)))
    ELSE w

(* np.clip(y, -0.98, 0.98, out=y) *)
chain_limiter(e, w) ==
    IF is_enabled(e, "Peak limiter") \/ is_enabled(e, "Limiter")
    THEN in_place(w, [n \in DOMAIN w.y |-> [c \in DOMAIN w.y[n] |->
             np_clip(w.y[n][c], Frac(98, 100))]])
    ELSE w

(* y = stereo_widen(y, 0.3 * I): the array itself below two channels *)
chain_widen(e, w) ==
    IF ~is_enabled(e, "Stereo widening") THEN w
    ELSE IF Channels(w.y) < 2 THEN w
    ELSE rebound(w, stereo_widen(w.y, Frac(3 * e.global_intensity, 1000)))

(* if wet < 1.0: y = y * wet + dry * (1.0 - wet) *)
chain_mix(e, w) ==
    IF e.wet_dry < 100
    THEN rebound(w, [n \in DOMAIN w.y |-> [c \in DOMAIN w.y[n] |->
             Sum(Scaled(w.y[n][c], e.wet_dry, 100),
                 Scaled(w.dry[n][c], 100 - e.wet_dry, 100))]])
    ELSE w

(* return np.clip(y, -1.0, 1.0); audio is the caller's array afterwards *)
chain_return(w) ==
    [result |-> [n \in DOMAIN w.y |-> [c \in DOMAIN w.y[n] |->
                    np_clip(w.y[n][c], <<1, 1>>)]],
     audio |-> w.dry]

apply_chain(e, audio, sr) ==
    chain_return(chain_mix(e, chain_widen(e, chain_limiter(e,
        chain_compressor(e, chain_bass(e, chain_gain(e, chain_copy(audio)),
                                       sr))))))

(* AuraApp.audio_data is None until a file was loaded *)
NoAudio == [none |-> TRUE, data |-> <<>>]
Audio(d) == [none |-> FALSE, data |-> d]
NotExported == [none |-> TRUE, audio |-> <<>>, sr |-> 0]

(* what read_wav returns: float64 frames clipped to [-1, 1], and a rate *)
StereoWave ==
    <<<<Plain(Half), Plain(QNeg(Quarter))>>, <<Plain(<<1, 1>>), Plain(Zero)>>>>
MonoWave == <<<<Plain(Half)>>, <<Plain(<<-1, 1>>)>>>>
LoadSamples ==
    {[data |-> StereoWave, sr |-> 44100], [data |-> MonoWave, sr |-> 8000]}

(* AuraApp._loaded(d, sr, p) *)
loaded(c, d, sr) == [c EXCEPT !.audio_data = Audio(d), !.wav_sample_rate = sr]

(* AuraApp._export with a file name chosen, AudioProcessor.run and the *)
(* finished handler, run to completion                                 *)
export(c, e) ==
    IF c.audio_data.none THEN c
    ELSE LET res == apply_chain(e, c.audio_data.data, c.wav_sample_rate)
         IN [c EXCEPT !.audio_data = Audio(res.audio),
                      !.exported = [none |-> FALSE, audio |-> res.result,
                                    sr |-> c.wav_sample_rate]]

ChainInit ==
    /\ audio_data = NoAudio
    /\ wav_sample_rate = 0
    /\ exported = NotExported

----------------------------------------------------------------------------
(* src/WAVEMIND.py: an export and a load as the threads run them.  _export *)
(* hands the engine itself, the buffer and the rate to an AudioProcessor   *)
(* and starts its thread; apply_chain then reads engine.state where each   *)
(* of its lines does, while the user interface thread goes on handling     *)
(* events.  job.start keeps the engine state of the moment _export ran.    *)

EngineState(e) ==
    [enabled |-> e.enabled, global_intensity |-> e.global_intensity,
     wet_dry |-> e.wet_dry]

NoArrays == [y |-> <<>>, dry |-> <<>>, alias |-> FALSE]

IdleJob ==
    [pc |-> "idle", audio |-> <<>>, sr |-> 0, I |-> 0, w |-> NoArrays,
     start |-> [enabled |-> <<>>, global_intensity |-> 0, wet_dry |-> 0],
     result |-> <<>>, edits |-> 0, exports |-> 0]

IdleLoader == [busy |-> FALSE, data |-> <<>>, sr |-> 0, loads |-> 0]

(* AuraApp._export past its two early returns: AudioProcessor(self.engine, *)
(* self.audio_data, self.sample_rate) and th.start()                       *)
export_begin(j, c, e) ==
    [j EXCEPT !.pc = "copy", !.audio = c.audio_data.data,
              !.sr = c.wav_sample_rate, !.start = EngineState(e),
              !.exports = @ + 1]

(* the engine as apply_chain sees it at a line after its first: the live *)
(* state, and the local I read at entry                                  *)
seen(j, e) == [e EXCEPT !.global_intensity = j.I]

(* one line of apply_chain on the worker thread, against the live engine *)
export_step(j, e) ==
    CASE j.pc = "copy" ->
            [j EXCEPT !.pc = "gain", !.w = chain_copy(j.audio),
                      !.I = e.global_intensity]
      [] j.pc = "gain" ->
            [j EXCEPT !.pc = "bass", !.w = chain_gain(seen(j, e), @)]
      [] j.pc = "bass" ->
            [j EXCEPT !.pc = "compressor",
                      !.w = chain_bass(seen(j, e), @, j.sr)]
      [] j.pc = "compressor" ->
            [j EXCEPT !.pc = "limiter", !.w = chain_compressor(seen(j, e), @)]
      [] j.pc = "limiter" ->
            [j EXCEPT !.pc = "widen", !.w = chain_limiter(seen(j, e), @)]
      [] j.pc = "widen" ->
            [j EXCEPT !.pc = "mix", !.w = chain_widen(seen(j, e), @)]
      [] j.pc = "mix" ->
            [j EXCEPT !.pc = "emit", !.w = NoArrays,
                      !.result = chain_return(chain_mix(seen(j, e), j.w)).result]
      [] OTHER -> j

(* the finished handler on the user interface thread:                 *)
(* write_wav(p, r, self.sample_rate), with the rate read at this time *)
export_write(c, j) ==
    [c EXCEPT !.exported = [none |-> FALSE, audio |-> j.result,
                            sr |-> c.wav_sample_rate]]

export_done(j) == [IdleJob EXCEPT !.exports = j.exports, !.edits = j.edits]

(* AuraApp._load_process with a file chosen: AudioLoader and th.start() *)
load_begin(l, f) ==
    [busy |-> TRUE, data |-> f.data, sr |-> f.sr, loads |-> l.loads + 1]

(* AuraApp._loaded: the loader's thread is told to quit *)
load_done(l) == [IdleLoader EXCEPT !.loads = l.loads]

Running(j) == j.pc \notin {"idle", "aborted"}

(* _export and _load_process both assign self.th.  The QThread it held   *)
(* loses its last reference; if that thread is still running, Qt aborts  *)
(* the process when the object is destroyed, and nothing does when the   *)
(* object is kept alive.                                                 *)
ThreadDropped(j, still_running) ==
    IF still_running THEN {j, [j EXCEPT !.pc = "aborted"]} ELSE {j}

(* the results of one event of the effect panel *)
PanelResults(e) ==
    {set_param([e EXCEPT !.dial = v], "global_intensity", v) :
         v \in DialSamples \ {e.dial}}
    \cup {set_param([e EXCEPT !.mix = v], "wet_dry", v) :
              v \in MixSamples \ {e.mix}}
    \cup {toggle_fx(click(e, item), item) : item \in TreeSamples}
    \cup {on_preset_changed([e EXCEPT !.combo = name], name) :
              name \in DOMAIN e.PRESETS \ {e.combo}}

MaxExports == 1   \* exports started in one run
MaxEdits == 2     \* panel events handled in one run
MaxLoads == 2     \* files loaded in one run

JobInit ==
    /\ job = IdleJob
    /\ loader = IdleLoader

----------------------------------------------------------------------------
(* src/Aftershock.py: AudioThread and MainWindow.toggle_power.  Every      *)
(* toggle_power that starts the core creates an AudioProcessor and an      *)
(* AudioThread for it; a thread record holds the thread, its stream and    *)
(* the block size and FFT bin partitions of its processor.  A partition is *)
(* kept as the block size and the rate it was computed for.  log is what   *)
(* the thread has emitted, opens the streams it has tried to open.         *)

DefaultBlockSize == 4096
StableBlockSize == 8192

Grid(n, rate) == [n |-> n, rate |-> rate]

NoThread ==
    [pc |-> "none", running |-> FALSE, buffer_mode |-> "fast", rate |-> 0,
     stream |-> FALSE, inflight |-> FALSE, failed |-> FALSE, opens |-> 0,
     log |-> <<>>, block_size |-> 0, freqs |-> Grid(0, 0),
     bass_indices |-> Grid(0, 0), treble_indices |-> Grid(0, 0)]

(* AudioProcessor(cfg['rate'], 4096) and AudioThread(processor, in, out, *)
(* cfg['rate'], mode), then thread.start()                               *)
new_thread(rate, mode) ==
    [NoThread EXCEPT !.pc = "start", !.buffer_mode = mode, !.rate = rate,
                     !.block_size = DefaultBlockSize,
                     !.freqs = Grid(DefaultBlockSize, rate),
                     !.bass_indices = Grid(DefaultBlockSize, rate),
                     !.treble_indices = Grid(DefaultBlockSize, rate)]

(* QThread.isRunning() *)
isRunning(t) == t.pc \notin {"none", "finished"}

(* bs = 8192 if self.buffer_mode == "stable" else 4096 *)
bs(t) == IF t.buffer_mode = "stable" THEN StableBlockSize ELSE DefaultBlockSize

(* the statements of run up to the with statement, in program order *)
run_order_open_first ==
    <<"running", "open", "block_size", "freqs", "bass", "treble">>

run_order == <<"running", "block_size", "freqs", "bass", "treble", "open">>

(* the statement after statement l of run_order; the loop follows the last *)
after(l) ==
    LET i == CHOOSE k \in DOMAIN run_order : run_order[k] = l
    IN IF i = Len(run_order) THEN "loop" ELSE run_order[i + 1]

emit(t, signal) == [t EXCEPT !.log = Append(@, signal)]

(* with sd.Stream(...): a failure is caught by except Exception, which  *)
(* emits error_signal and falls through to the OFFLINE status           *)
run_open_retry(t, fail) ==
    IF fail THEN [emit(t, "error") EXCEPT !.opens = @ + 1, !.failed = TRUE]
    ELSE [emit(t, "ONLINE") EXCEPT !.opens = @ + 1, !.stream = TRUE,
                                   !.pc = after("open")]

run_open(t, fail) ==
    IF fail THEN [emit(t, "error") EXCEPT !.opens = @ + 1, !.failed = TRUE,
                                          !.pc = "offline"]
    ELSE [emit(t, "ONLINE") EXCEPT !.opens = @ + 1, !.stream = TRUE,
                                   !.pc = after("open")]

(* one statement of AudioThread.run; fail: the stream raises here *)
run_step(t, fail) ==
    CASE t.pc = "start" -> [t EXCEPT !.pc = run_order[1]]
      [] t.pc = "running" -> [t EXCEPT !.running = TRUE, !.pc = after("running")]
      [] t.pc = "block_size" ->
            [t EXCEPT !.block_size = bs(t), !.pc = after("block_size")]
      [] t.pc = "freqs" ->
            [t EXCEPT !.freqs = Grid(bs(t), t.rate), !.pc = after("freqs")]
      [] t.pc = "bass" ->
            [t EXCEPT !.bass_indices = t.freqs, !.pc = after("bass")]
      [] t.pc = "treble" ->
            [t EXCEPT !.treble_indices = t.freqs, !.pc = after("treble")]
      [] t.pc = "open" -> run_open(t, fail)
      [] t.pc = "loop" -> IF t.running THEN t ELSE [t EXCEPT !.pc = "close"]
      [] t.pc = "close" ->
            IF t.inflight THEN t
            ELSE IF fail
            THEN [emit(t, "error") EXCEPT !.stream = FALSE, !.failed = TRUE,
                                          !.pc = "offline"]
            ELSE [t EXCEPT !.stream = FALSE, !.pc = "offline"]
      [] t.pc = "offline" -> [emit(t, "OFFLINE") EXCEPT !.pc = "finished"]
      [] OTHER -> t

(* the stream calls audio_callback, which calls processor.process, and *)
(* the call returns                                                    *)
callback_begin(t) == [t EXCEPT !.inflight = TRUE]
callback_end(t) == [t EXCEPT !.inflight = FALSE]

(* AudioThread.stop: self.running = False, then wait(1000) *)
stop_thread(t) == [t EXCEPT !.running = FALSE]

MaxToggles == 2   \* threads toggle_power creates in one run

(* the selected device pair's default rate and the buffer mode of the *)
(* combo box at the moment of the click                               *)
PowerSamples ==
    {[rate |-> 44100, mode |-> "stable"], [rate |-> 48000, mode |-> "fast"]}

IdleCore ==
    [thread |-> 0, created |-> 0, waiting |-> FALSE, aborted |-> FALSE,
     threads |-> <<>>]

(* self.thread and self.thread.isRunning() *)
thread_running(c) ==
    IF c.thread = 0 THEN FALSE ELSE isRunning(c.threads[c.thread])

(* toggle_power with a running thread: stop() up to its wait *)
toggle_power_off(c) ==
    [c EXCEPT !.threads[c.thread] = stop_thread(@), !.waiting = TRUE]

(* wait(1000) returns, the thread finished or not, and self.thread = None; *)
(* a thread still running then loses its last reference                    *)
toggle_power_waited(c) ==
    LET done == [c EXCEPT !.thread = 0, !.waiting = FALSE]
    IN IF thread_running(c)
       THEN {done, [done EXCEPT !.aborted = TRUE]}
       ELSE {done}

(* toggle_power without a running thread and with a device pair selected *)
toggle_power_on(c, rate, mode) ==
    [c EXCEPT !.created = @ + 1, !.thread = c.created + 1,
              !.threads = Append(@, new_thread(rate, mode))]

CoreInit == core = IdleCore

----------------------------------------------------------------------------
(* WAV files: write_wav and read_wav *)

(* A buffer handed to write_wav is a numpy array of one dimension (n       *)
(* samples) or two (n frames of ch channels); x holds its samples in row   *)
(* order, each as its numerator over 32768.  In that unit the product      *)
(* audio * 2147483647.0 is exact in float64.                               *)
PcmScale == 32768

Buffer(ndim, ch, x) == [ndim |-> ndim, ch |-> ch, x |-> x]

(* np.clip(audio, -1.0, 1.0) *)
wav_clip(k) ==
    IF k > PcmScale THEN PcmScale ELSE IF k < 0 - PcmScale THEN 0 - PcmScale
    ELSE k

(* a writer of 16-bit samples: (audio * 32767.0).astype(np.int16) *)
to_int16(k) ==
    LET a == IF k < 0 THEN 0 - k ELSE k
        q == (a * 32767) \div PcmScale
    IN IF k < 0 THEN 0 - q ELSE q

(* (audio * 2147483647.0).astype(np.int32) for one clipped sample: the     *)
(* product a * (2^31 - 1) / 2^15 cut towards zero, computed on |a| as      *)
(* a * 65535 + (a * 32767) \div 32768 to stay within 32 bits               *)
to_int32(k) ==
    LET a == IF k < 0 THEN 0 - k ELSE k
        q == (a * 65535) + ((a * 32767) \div PcmScale)
    IN IF k < 0 THEN 0 - q ELSE q

(* pcm.tobytes(): four little-endian bytes of the two's complement *)
tobytes(v) ==
    <<v % 256, (v \div 256) % 256, (v \div 65536) % 256,
      (v \div 16777216) % 256>>

(* np.frombuffer(raw, dtype=np.int32) for the four bytes of one sample *)
frombuffer(b) ==
    LET hi == IF b[4] >= 128 THEN b[4] - 256 ELSE b[4]
    IN (hi * 16777216) + (b[3] * 65536) + (b[2] * 256) + b[1]

(* write_wav(path, audio, sr): the file's header fields and its frames *)
write_wav(audio, sr) ==
    [nchannels |-> IF audio.ndim = 1 THEN 1 ELSE audio.ch,
     sampwidth |-> 4,
     framerate |-> sr,
     raw |-> [i \in DOMAIN audio.x |->
                 tobytes(to_int32(wav_clip(audio.x[i])))]]

(* wf.getnframes(): the data chunk's size over the frame size *)
getnframes(f) == Len(f.raw) \div f.nchannels

(* read_wav(path) of a file of 4-byte samples: the array reshaped to   *)
(* (-1, ch) and the rate; each sample is int32 / 2147483648.0, kept as *)
(* the int32, which np.clip leaves alone                               *)
read_wav(f) ==
    [ch |-> f.nchannels,
     frames |-> getnframes(f),
     sr |-> f.framerate,
     y |-> [i \in DOMAIN f.raw |-> frombuffer(f.raw[i])]]

NoFile == [nchannels |-> 0, sampwidth |-> 0, framerate |-> 0, raw |-> <<>>]
NoRead == [ch |-> 0, frames |-> 0, sr |-> 0, y |-> <<>>]

IdleWav ==
    [audio |-> Buffer(2, 2, <<>>), sr |-> 0, pc |-> "build", file |-> NoFile,
     back |-> NoRead]

MaxFrames == 2   \* frames of a buffer written to a file

PcmSamples == {0 - 40000, 0 - 32768, 0 - 1, 0, 1, 16385, 32767}
RateSamples == {8000, 44100}

WavInit == wav = IdleWav

----------------------------------------------------------------------------
(* Initial state: AuraApp.__init__ and AudioProcessor.__init__ *)

Init ==
    /\ active_player = 0
    /\ master_volume = SliderMax
    /\ is_crossfading = FALSE
    /\ cross_timer = FALSE
    /\ xfade_start_time = NoTime
    /\ now = 0
    /\ current_playlist = <<>>
    /\ current_index = -1
    /\ shuffle_state = FALSE
    /\ loop_state = 1
    /\ fx_crossfade = FALSE
    /\ pstate = [d \in Decks |-> "Stopped"]
    /\ source = [d \in Decks |-> NoSource]
    /\ volume = [d \in Decks |-> VolScale]
    /\ position = [d \in Decks |-> 0]
    /\ monitor_due = MonitorInterval
    /\ ProcInit
    /\ EngInit
    /\ ChainInit
    /\ JobInit
    /\ CoreInit
    /\ WavInit

----------------------------------------------------------------------------
(* Actions: one per handler *)

DropEvent == \E valid \in Playlists : Commit(drop_event(S, valid))

LibDblClick ==
    \E folder \in Playlists : \E k \in 1 .. Len(folder) :
        Commit(lib_dbl_click(S, folder, k))

ToggleShuffle == Commit([S EXCEPT !.shuffle_state = ~S.shuffle_state])

ToggleLoop == Commit([S EXCEPT !.loop_state = (S.loop_state + 1) % 3])

SetMasterVol == \E val \in MasterLevels : Commit(set_master_vol(S, val))

(* _toggle_fx on the "Crossfade" item of the effect tree *)
ToggleFxCrossfade == Commit([S EXCEPT !.fx_crossfade = ~S.fx_crossfade])

PlayNext == \E r \in Draws(S) : Commit(play_next(S, r))

PlayPrev == \E r \in Draws(S) : Commit(play_prev(S, r))

TogglePlayback == Commit(toggle_playback(S))

StopPlayback == Commit(stop_playback(S))

SeekRelease == Commit(seek_release(S))

(* monitor_timer timeout; the timer runs from construction on.  The poll *)
(* returns at once with the Crossfade effect off, the active deck not    *)
(* playing or a session in progress.                                     *)
CheckXfadeTrigger ==
    /\ fx_crossfade /\ ~is_crossfading
    /\ pstate[active_player] = "Playing"
    /\ \E dp \in PollSamples : \E r \in Draws(S) :
          Commit(check_xfade_trigger(S, dp[1], dp[2], r))

(* cross_timer timeout *)
CrossfadeStep ==
    /\ cross_timer
    /\ Commit(crossfade_step(S))

(* mediaStatusChanged(EndOfMedia) of either deck *)
EndOfMedia ==
    \E d \in Decks : \E r \in Draws(S) :
        /\ pstate[d] = "Playing"
        /\ Commit(media_end(S, d, r))

(* time passes *)
Advance ==
    /\ now < MaxClockSteps * Quantum
    /\ Commit([S EXCEPT !.now = S.now + Quantum])

Next ==
    \/ DropEvent
    \/ LibDblClick
    \/ ToggleShuffle
    \/ ToggleLoop
    \/ SetMasterVol
    \/ ToggleFxCrossfade
    \/ PlayNext
    \/ PlayPrev
    \/ TogglePlayback
    \/ StopPlayback
    \/ SeekRelease
    \/ CheckXfadeTrigger
    \/ CrossfadeStep
    \/ EndOfMedia
    \/ Advance

Spec == Init /\ [][Next]_vars

----------------------------------------------------------------------------
(* The same handlers with the timers on time: the clock advances by the     *)
(* cross_timer interval and a running cross_timer then times out, so ticks  *)
(* of a session fall CrossInterval apart, counted from cross_timer.start(). *)

MaxTimedTicks == 43

TimedTick ==
    /\ now < MaxTimedTicks * CrossInterval
    /\ LET s1 == [S EXCEPT !.now = S.now + CrossInterval] IN
       Commit(IF s1.cross_timer THEN crossfade_step(s1) ELSE s1)

TimedDrop == Commit(drop_event(S, Folder(2)))

TimedNext ==
    \/ TimedTick
    \/ TimedDrop
    \/ PlayNext
    \/ SetMasterVol
    \/ TogglePlayback
    \/ StopPlayback
    \/ SeekRelease
    \/ EndOfMedia

SpecTimed == Init /\ [][TimedNext]_vars

----------------------------------------------------------------------------
(* Unattended playback of a playlist of ScenarioLen tracks, each            *)
(* ScenarioDuration ms long.  The clock moves in steps of CrossInterval;    *)
(* playing decks advance with it, a deck that reaches the end of its track  *)
(* reports EndOfMedia, a cross_timer that was running times out, and the    *)
(* monitor_timer times out every MonitorInterval.                           *)

ScenarioLen == 10
ScenarioDuration == 180000
MaxScenarioTicks == 18000

(* QMediaPlayer.duration() of deck d *)
duration(s, d) == IF s.source[d] = NoSource THEN 0 ELSE ScenarioDuration

(* dt ms pass with no handler running *)
elapse(s, dt) ==
    [s EXCEPT !.now = s.now + dt,
              !.monitor_due = s.monitor_due - dt,
              !.position = [d \in Decks |->
                  IF s.pstate[d] = "Playing"
                  THEN IF s.position[d] + dt > duration(s, d)
                       THEN duration(s, d) ELSE s.position[d] + dt
                  ELSE s.position[d]]]

(* the decks that have just played to the end of their track report it,     *)
(* deck A first                                                             *)
ended(s, d) == s.pstate[d] = "Playing" /\ s.position[d] >= duration(s, d)
deliver_end(s, d, r) == IF ended(s, d) THEN media_end(s, d, r) ELSE s
deliver_ends(s, r) == deliver_end(deliver_end(s, 0, r), 1, r)

(* monitor_timer timeout, when due: _check_xfade_trigger reads the active   *)
(* deck's duration and position                                             *)
monitor_timeout(s, r) ==
    IF s.monitor_due > 0 THEN s
    ELSE check_xfade_trigger([s EXCEPT !.monitor_due = MonitorInterval],
                             duration(s, current_player(s)),
                             s.position[current_player(s)], r)

(* cross_timer timeout, when the timer was running before this instant *)
cross_timeout(s, was_running) ==
    IF was_running /\ s.cross_timer THEN crossfade_step(s) ELSE s

(* one clock step and the handlers due at the new instant; the two timers   *)
(* are served in either order                                               *)
scenario_tick(s, cross_first, r) ==
    LET s1 == elapse(s, CrossInterval)
        s2 == deliver_ends(s1, r)
    IN IF cross_first
       THEN monitor_timeout(cross_timeout(s2, s.cross_timer), r)
       ELSE cross_timeout(monitor_timeout(s2, r), s.cross_timer)

ScenarioTick ==
    /\ now < MaxScenarioTicks * CrossInterval
    /\ current_playlist # <<>> \/ now < MonitorInterval
    /\ \E cross_first \in BOOLEAN : \E r \in Draws(S) :
           Commit(scenario_tick(S, cross_first, r))

(* the user enables the Crossfade effect, then drops the playlist *)
ScenarioEnable ==
    /\ current_playlist = <<>>
    /\ ~fx_crossfade
    /\ ToggleFxCrossfade

ScenarioStart ==
    /\ current_playlist = <<>>
    /\ fx_crossfade
    /\ Commit(drop_event(S, Folder(ScenarioLen)))

ScenarioNext == ScenarioTick \/ ScenarioEnable \/ ScenarioStart

SpecScenario == Init /\ [][ScenarioNext]_vars

----------------------------------------------------------------------------
(* The processor driven by one thread: the user's preset and volume changes *)
(* and the audio callback, each run to completion.                          *)

ProcCommit(st) ==
    /\ preset' = st.preset
    /\ proc_volume' = st.master_volume
    /\ phase' = st.phase
    /\ input_level' = st.input_level
    /\ output_level' = st.output_level
    /\ UNCHANGED <<appvars, engvars, chainvars, jobvars, corevars, wavvars>>

(* MainWindow.apply_preset -> set_preset *)
SetPreset ==
    \E params \in PresetSamples :
        ProcCommit(set_preset(P, params)) /\ UNCHANGED <<cb, swaps>>

(* MainWindow.update_volume -> set_volume *)
SetVolume ==
    \E vol \in VolumeSamples :
        ProcCommit(set_volume(P, vol)) /\ UNCHANGED <<cb, swaps>>

AudioCallback ==
    /\ phase <= MaxPhase
    /\ \E indata \in Blocks : \E fail \in {-1, 0} \cup Stages :
          ProcCommit(audio_callback(P, indata, fail = -1,
                                    IF fail = -1 THEN 0 ELSE fail).st)
    /\ UNCHANGED <<cb, swaps>>

ProcessorNext == SetPreset \/ SetVolume \/ AudioCallback

SpecProcessor == Init /\ [][ProcessorNext]_vars

----------------------------------------------------------------------------
(* The processor shared by two threads: set_preset runs on the UI thread    *)
(* while process runs on the callback thread.  The interpreter may switch   *)
(* threads between any two attribute reads, so each self.preset.get(...)    *)
(* of process is a step of its own; read_from keeps, for each parameter,    *)
(* the dict self.preset referred to when it was read.                       *)

MaxSwaps == 2
ThreadPresets == {BassGod, Motion8D}

UiSetPreset ==
    /\ swaps < MaxSwaps
    /\ swaps' = swaps + 1
    /\ \E params \in ThreadPresets : ProcCommit(set_preset(P, params))
    /\ UNCHANGED cb

(* the attributes are the processor's own: the call keeps none of them *)
call_state(w) == [w EXCEPT !.st = <<>>]

CallbackBegin ==
    /\ cb.pc = "idle"
    /\ phase <= MaxPhase
    /\ \E indata \in Blocks :
          LET w == begin(P, indata, 0) IN
          /\ ProcCommit(w.st)
          /\ cb' = [pc |-> "read", keys |-> ParamKeys, read_from |-> <<>>,
                    w |-> call_state(w)]
    /\ UNCHANGED swaps

CallbackRead ==
    /\ cb.pc = "read"
    /\ LET key == Head(cb.keys)
           w == read_param([cb.w EXCEPT !.st = P], key)
       IN cb' = [pc |-> IF Tail(cb.keys) = <<>> THEN "compute" ELSE "read",
                 keys |-> Tail(cb.keys),
                 read_from |-> [k \in DOMAIN cb.read_from \cup {key} |->
                                   IF k = key THEN preset
                                   ELSE cb.read_from[k]],
                 w |-> call_state(w)]
    /\ UNCHANGED <<preset, proc_volume, phase, input_level, output_level,
                   swaps>>
    /\ UNCHANGED <<appvars, engvars, chainvars, jobvars, corevars, wavvars>>

CallbackCompute ==
    /\ cb.pc = "compute"
    /\ ProcCommit(finish(compute([cb.w EXCEPT !.st = P])).st)
    /\ cb' = IdleCall
    /\ UNCHANGED swaps

CallbackNext ==
    UiSetPreset \/ CallbackBegin \/ CallbackRead \/ CallbackCompute

SpecCallback == Init /\ [][CallbackNext]_vars

----------------------------------------------------------------------------
(* The effect panel: the user moves the dial or the slider, clicks an      *)
(* effect item or picks a preset.  A widget emits its signal only when its *)
(* value changes.  The scheduler reads the engine through fx_crossfade.    *)

EngSet(t) ==
    /\ enabled' = t.enabled
    /\ global_intensity' = t.global_intensity
    /\ wet_dry' = t.wet_dry
    /\ PRESETS' = t.PRESETS
    /\ combo' = t.combo
    /\ dial' = t.dial
    /\ mix' = t.mix
    /\ checked' = t.checked
    /\ fx_crossfade' = is_enabled(t, "Crossfade")
    /\ UNCHANGED <<active_player, master_volume, is_crossfading, cross_timer,
                   xfade_start_time, now, current_playlist, current_index,
                   shuffle_state, loop_state, pstate, source, volume,
                   position, monitor_due>>

EngCommit(t) == EngSet(t) /\ UNCHANGED <<procvars, chainvars, jobvars, corevars, wavvars>>

(* dial.valueChanged -> _set_param('global_intensity', v/100) *)
DialMoved ==
    \E v \in DialSamples :
        /\ v # dial
        /\ EngCommit(set_param([E EXCEPT !.dial = v], "global_intensity", v))

(* mix.valueChanged -> _set_param('wet_dry', v/100) *)
MixMoved ==
    \E v \in MixSamples :
        /\ v # mix
        /\ EngCommit(set_param([E EXCEPT !.mix = v], "wet_dry", v))

(* a click on the check box of an effect item, then tree.itemChanged *)
TreeClicked ==
    \E item \in TreeSamples :
        EngCommit(toggle_fx(click(E, item), item))

(* the user picks another entry of the combo box *)
PresetSelected ==
    \E name \in DOMAIN PRESETS :
        /\ name # combo
        /\ EngCommit(on_preset_changed([E EXCEPT !.combo = name], name))

PresetsNext == DialMoved \/ MixMoved \/ TreeClicked \/ PresetSelected

SpecPresets == Init /\ [][PresetsNext]_vars

----------------------------------------------------------------------------
(* Offline processing: a WAV file is loaded and the buffer is exported     *)
(* through the chain, between the user's changes to the effect panel.      *)

C == [audio_data |-> audio_data, wav_sample_rate |-> wav_sample_rate,
      exported |-> exported]

ChainCommit(c) ==
    /\ audio_data' = c.audio_data
    /\ wav_sample_rate' = c.wav_sample_rate
    /\ exported' = c.exported
    /\ UNCHANGED <<appvars, procvars, engvars, jobvars, corevars, wavvars>>

Loaded == \E f \in LoadSamples : ChainCommit(loaded(C, f.data, f.sr))

Export == ~audio_data.none /\ ChainCommit(export(C, E))

ChainNext == PresetsNext \/ Loaded \/ Export

SpecChain == Init /\ [][ChainNext]_vars

----------------------------------------------------------------------------
(* Export and load on their threads, interleaved with the effect panel *)

PanelEvent ==
    /\ job.pc # "aborted"
    /\ job.edits < MaxEdits
    /\ \E t \in PanelResults(E) : EngSet(t)
    /\ job' = [job EXCEPT !.edits = @ + 1]
    /\ UNCHANGED <<procvars, chainvars, loader, corevars, wavvars>>

ExportBegin ==
    /\ job.pc = "idle"
    /\ job.exports < MaxExports
    /\ ~audio_data.none
    /\ \E j \in ThreadDropped(export_begin(job, C, E), loader.busy) : job' = j
    /\ UNCHANGED <<appvars, procvars, engvars, chainvars, loader, corevars, wavvars>>

ExportStep ==
    /\ Running(job) /\ job.pc # "emit"
    /\ job' = export_step(job, E)
    /\ UNCHANGED <<appvars, procvars, engvars, chainvars, loader, corevars, wavvars>>

ExportWrite ==
    /\ job.pc = "emit"
    /\ audio_data' = audio_data
    /\ wav_sample_rate' = wav_sample_rate
    /\ exported' = export_write(C, job).exported
    /\ job' = export_done(job)
    /\ UNCHANGED <<appvars, procvars, engvars, loader, corevars, wavvars>>

LoadBegin ==
    /\ job.pc # "aborted"
    /\ ~loader.busy
    /\ loader.loads < MaxLoads
    /\ \E f \in LoadSamples : loader' = load_begin(loader, f)
    /\ \E j \in ThreadDropped(job, Running(job)) : job' = j
    /\ UNCHANGED <<appvars, procvars, engvars, chainvars, corevars, wavvars>>

LoadFinish ==
    /\ job.pc # "aborted"
    /\ loader.busy
    /\ audio_data' = loaded(C, loader.data, loader.sr).audio_data
    /\ wav_sample_rate' = loaded(C, loader.data, loader.sr).wav_sample_rate
    /\ loader' = load_done(loader)
    /\ UNCHANGED <<appvars, procvars, engvars, exported, job, corevars, wavvars>>

ExportNext ==
    PanelEvent \/ ExportBegin \/ ExportStep \/ ExportWrite \/ LoadBegin
    \/ LoadFinish

SpecExport == Init /\ [][ExportNext]_vars

----------------------------------------------------------------------------
(* The core switched on and off: toggle_power on the user interface thread, *)
(* the statements of each AudioThread, and the callbacks of its stream.     *)
(* The new processor starts from AudioProcessor.__init__ with the volume of *)
(* the slider; no preset button is checked and the slider is where it was   *)
(* at start, as nothing here moves them.                                    *)

CoreCommit(c) ==
    /\ core' = c
    /\ UNCHANGED <<appvars, procvars, engvars, chainvars, jobvars, wavvars>>

TogglePowerOn ==
    /\ ~core.aborted /\ ~core.waiting
    /\ ~thread_running(core)
    /\ core.created < MaxToggles
    /\ \E cfg \in PowerSamples :
          core' = toggle_power_on(core, cfg.rate, cfg.mode)
    /\ preset' = InitialPreset
    /\ proc_volume' = set_volume(P, 100).master_volume
    /\ phase' = 0
    /\ input_level' = Zero
    /\ output_level' = <<>>
    /\ UNCHANGED <<cb, swaps, appvars, engvars, chainvars, jobvars, wavvars>>

TogglePowerOff ==
    /\ ~core.aborted /\ ~core.waiting
    /\ thread_running(core)
    /\ CoreCommit(toggle_power_off(core))

TogglePowerWaited ==
    /\ ~core.aborted /\ core.waiting
    /\ \E c \in toggle_power_waited(core) : CoreCommit(c)

ThreadStep ==
    /\ ~core.aborted
    /\ \E i \in DOMAIN core.threads, fail \in BOOLEAN :
          /\ isRunning(core.threads[i])
          /\ fail => core.threads[i].pc \in {"open", "close"}
          /\ CoreCommit([core EXCEPT !.threads[i] = run_step(@, fail)])

StreamCallback ==
    /\ ~core.aborted
    /\ \E i \in DOMAIN core.threads :
          /\ core.threads[i].stream
          /\ CoreCommit([core EXCEPT !.threads[i] =
                            IF @.inflight THEN callback_end(@)
                            ELSE callback_begin(@)])

StreamNext ==
    TogglePowerOn \/ TogglePowerOff \/ TogglePowerWaited \/ ThreadStep
    \/ StreamCallback

SpecStream == Init /\ [][StreamNext]_vars

----------------------------------------------------------------------------
(* Actions of the WAV round trip: a buffer is given its shape and frames, *)
(* written with write_wav and the file read back with read_wav.           *)

WavCommit(w) ==
    /\ wav' = w
    /\ UNCHANGED <<appvars, procvars, engvars, chainvars, jobvars, corevars>>

Frames(audio) == Len(audio.x) \div (IF audio.ndim = 1 THEN 1 ELSE audio.ch)

WavShape ==
    /\ wav.pc = "build" /\ wav.audio.x = <<>>
    /\ \E shape \in {<<1, 1>>, <<2, 1>>, <<2, 2>>} :
          /\ Buffer(shape[1], shape[2], <<>>) # wav.audio
          /\ WavCommit([wav EXCEPT !.audio = Buffer(shape[1], shape[2], <<>>)])

WavFrame ==
    /\ wav.pc = "build"
    /\ Frames(wav.audio) < MaxFrames
    /\ \E l, r \in PcmSamples :
          WavCommit([wav EXCEPT !.audio.x =
                        IF wav.audio.ndim = 2 /\ wav.audio.ch = 2
                        THEN @ \o <<l, r>> ELSE Append(@, l)])

WavWrite ==
    /\ wav.pc = "build"
    /\ \E sr \in RateSamples :
          WavCommit([wav EXCEPT !.sr = sr, !.pc = "written",
                               !.file = write_wav(wav.audio, sr)])

WavRead ==
    /\ wav.pc = "written"
    /\ WavCommit([wav EXCEPT !.pc = "read", !.back = read_wav(wav.file)])

WavNext == WavShape \/ WavFrame \/ WavWrite \/ WavRead

SpecWav == Init /\ [][WavNext]_vars

----------------------------------------------------------------------------
(* State functions used by the properties *)

Elapsed == now - xfade_start_time
Master == master_volume * xfade_duration
OutgoingVol == volume[active_player]
IncomingVol == volume[1 - active_player]

----------------------------------------------------------------------------
(* C1: at most one crossfade session exists.  No step taken while           *)
(* is_crossfading is true and leaving it true records a new start time,     *)
(* reloads a deck or swaps the decks: a session is begun only from a state  *)
(* without one.                                                             *)
C1_SingleSession ==
    [][(is_crossfading /\ is_crossfading') =>
          /\ xfade_start_time' = xfade_start_time
          /\ source' = source
          /\ active_player' = active_player
          /\ cross_timer /\ cross_timer']_vars

(* a session is running, time has passed since it began, and both decks    *)
(* play: the state in which next, previous, a drop or the poll would ask    *)
(* for another crossfade                                                    *)
C1_Witness ==
    /\ is_crossfading
    /\ Elapsed > 0
    /\ fx_crossfade
    /\ pstate[0] = "Playing" /\ pstate[1] = "Playing"

(* C2: after every tick that leaves the session running, the outgoing and   *)
(* the incoming deck's volumes add up to the current master volume.  In     *)
(* every state in which cross_timer can time out, the state _crossfade_step *)
(* leaves has that sum.                                                     *)
C2_VolumeSum ==
    cross_timer =>
        LET t == crossfade_step(S) IN
        t.is_crossfading =>
            t.volume[t.active_player] + t.volume[1 - t.active_player]
                = MasterVol(t)

(* a tick has faded the decks under a master volume other than the one the  *)
(* application starts with                                                  *)
C2_Witness ==
    /\ is_crossfading
    /\ master_volume # SliderMax
    /\ IncomingVol > 0
    /\ OutgoingVol > 0
    /\ OutgoingVol + IncomingVol = Master

(* C4: a tick that observes progress >= 1 stops the fine timer, ends the    *)
(* session, stops the outgoing deck, makes the incoming deck the active one *)
(* and sets both volumes to the master volume, all in the one handler run.  *)
C4_Completion ==
    (cross_timer /\ Elapsed >= xfade_duration) =>
        LET t == crossfade_step(S) IN
        /\ ~t.cross_timer
        /\ ~t.is_crossfading
        /\ t.pstate[active_player] = "Stopped"
        /\ t.active_player = 1 - active_player
        /\ t.pstate[t.active_player] = pstate[1 - active_player]
        /\ t.source = source
        /\ t.volume = [d \in Decks |-> Master]

(* deck B is the active deck and plays at master volume: only a completed   *)
(* crossfade makes deck B active                                            *)
C4_Witness ==
    /\ active_player = 1
    /\ ~is_crossfading
    /\ pstate = [d \in Decks |-> IF d = 1 THEN "Playing" ELSE "Stopped"]
    /\ volume = [d \in Decks |-> Master]
    /\ Elapsed >= xfade_duration

(* C3: within a session the elapsed time the ticks turn into progress never *)
(* decreases and is never negative; the volumes a tick applies lie in       *)
(* [0, master]; the first tick at or after xfade_duration ends the session; *)
(* and with the timer on time no session is older than xfade_duration plus  *)
(* one tick period.                                                         *)
C3_Progress ==
    /\ [][(is_crossfading /\ is_crossfading') =>
             (0 <= Elapsed /\ Elapsed <= Elapsed')]_vars
    /\ [][(TimedTick /\ cross_timer /\ is_crossfading') =>
             \A d \in Decks : 0 <= volume'[d]
                              /\ volume'[d] <= master_volume' * xfade_duration]_vars
    /\ [][(TimedTick /\ cross_timer /\ Elapsed' >= xfade_duration) =>
             ~is_crossfading']_vars
    /\ [](is_crossfading => Elapsed <= xfade_duration + CrossInterval)

(* a session that ran its full length: it ended on the tick at exactly      *)
(* xfade_duration after it began, and the incoming deck plays on            *)
C3_Witness ==
    /\ ~is_crossfading
    /\ active_player = 1
    /\ Elapsed = xfade_duration
    /\ pstate[1] = "Playing"
    /\ volume = [d \in Decks |-> Master]

(* C5: a manual pause, stop or seek issued during a session cancels it:     *)
(* the step stops the fine timer, ends the session, leaves the incoming     *)
(* deck stopped and gives the active deck the full master volume.           *)
ManualPause == TogglePlayback /\ pstate[active_player] = "Playing"

C5_TransportCancels ==
    [][(is_crossfading /\ (ManualPause \/ StopPlayback \/ SeekRelease)) =>
          /\ ~cross_timer'
          /\ ~is_crossfading'
          /\ pstate'[1 - active_player'] = "Stopped"
          /\ volume'[active_player'] = master_volume' * xfade_duration]_vars

(* C6: a manual track change with a valid index issued during a session     *)
(* cancels the session.  In every state with a session in progress, each    *)
(* of next, previous, a library double-click and a drop leaves the timer    *)
(* stopped, the session ended, both volumes at master, and exactly one      *)
(* deck, the active one, loaded with the selected track and playing.        *)
SelectedTrack == current_playlist[current_index + 1]

Cancelled(t) ==
    /\ ~t.cross_timer
    /\ ~t.is_crossfading
    /\ t.volume = [d \in Decks |-> MasterVol(t)]
    /\ t.pstate[t.active_player] = "Playing"
    /\ t.pstate[1 - t.active_player] = "Stopped"
    /\ t.source[t.active_player] = t.current_playlist[t.current_index + 1]

C6_TrackChangeCancels ==
    is_crossfading =>
        /\ \A r \in RandDraws(S) :
              /\ get_next_index(S, TRUE, r) # -1 => Cancelled(play_next(S, r))
              /\ get_next_index(S, FALSE, r) # -1 => Cancelled(play_prev(S, r))
        /\ \A folder \in Playlists :
              /\ \A k \in 1 .. Len(folder) :
                    Cancelled(lib_dbl_click(S, folder, k))
              /\ Cancelled(drop_event(S, folder))

(* a session that ended before xfade_duration had elapsed, which only a     *)
(* cancellation does, with the selected track playing alone on the active   *)
(* deck at master volume                                                    *)
C6_Witness ==
    /\ ~is_crossfading /\ ~cross_timer
    /\ xfade_start_time # NoTime
    /\ 0 < Elapsed /\ Elapsed < xfade_duration
    /\ pstate[active_player] = "Playing"
    /\ pstate[1 - active_player] = "Stopped"
    /\ source[active_player] = SelectedTrack
    /\ volume = [d \in Decks |-> Master]

(* C7: with shuffle off, next from index i of N >= 1 tracks selects i+1     *)
(* when i+1 < N; at the end it selects 0 under loop All, and otherwise      *)
(* leaves the cursor alone, loads nothing and stops both decks.             *)
C7_Advance ==
    (~shuffle_state /\ Len(current_playlist) >= 1) =>
        \A r \in RandDraws(S) :
            LET t == play_next(S, r)
                plays_selected ==
                    \E d \in Decks :
                        /\ t.source[d] = t.current_playlist[t.current_index + 1]
                        /\ t.pstate[d] = "Playing"
            IN
            IF current_index + 1 < Len(current_playlist)
            THEN t.current_index = current_index + 1 /\ plays_selected
            ELSE IF loop_state = 1
            THEN t.current_index = 0 /\ plays_selected
            ELSE /\ t.current_index = current_index
                 /\ t.source = source
                 /\ t.pstate = [d \in Decks |-> "Stopped"]

(* the cursor sits on the last of several tracks with looping off and both  *)
(* decks stopped, the last track still loaded: where a next at the end of   *)
(* the list leaves the player                                               *)
C7_Witness ==
    /\ ~shuffle_state /\ loop_state = 0
    /\ Len(current_playlist) >= 2
    /\ current_index = Len(current_playlist) - 1
    /\ pstate = [d \in Decks |-> "Stopped"]
    /\ source[active_player] = SelectedTrack

(* C8: with shuffle off, previous from index i of N >= 1 tracks selects     *)
(* i-1 when i >= 1; from 0 it selects N-1 under loop All and 0 otherwise.   *)
C8_Reverse ==
    (~shuffle_state /\ Len(current_playlist) >= 1) =>
        \A r \in RandDraws(S) :
            LET t == play_prev(S, r) IN
            /\ t.current_index =
                  IF current_index >= 1 THEN current_index - 1
                  ELSE IF loop_state = 1 THEN Len(current_playlist) - 1
                  ELSE 0
            /\ \E d \in Decks :
                  /\ t.source[d] = t.current_playlist[t.current_index + 1]
                  /\ t.pstate[d] = "Playing"

(* the cursor is on the last of several tracks under loop All with shuffle  *)
(* off and that track is playing: where previous from index 0 wraps to      *)
C8_Witness ==
    /\ ~shuffle_state /\ loop_state = 1
    /\ Len(current_playlist) >= 2
    /\ current_index = Len(current_playlist) - 1
    /\ \E d \in Decks : source[d] = SelectedTrack /\ pstate[d] = "Playing"

(* C9: with shuffle on, every index _get_next_index selects, advancing or   *)
(* reversing, in any loop mode and from any current index, is in [0, N),    *)
(* and the current index is among the possible selections.                  *)
C9_ShuffleValid ==
    (shuffle_state /\ Len(current_playlist) >= 1) =>
        \A advance \in BOOLEAN :
            /\ \A r \in RandDraws(S) :
                  get_next_index(S, advance, r) \in
                      0 .. (Len(current_playlist) - 1)
            /\ \E r \in RandDraws(S) :
                  get_next_index(S, advance, r) = current_index

(* shuffle is on and the last of several tracks plays *)
C9_Witness ==
    /\ shuffle_state
    /\ Len(current_playlist) >= 2
    /\ current_index = Len(current_playlist) - 1
    /\ pstate[active_player] = "Playing"
    /\ source[active_player] = SelectedTrack

(* C10: under loop One an end-of-media outside a session and the poll's     *)
(* crossfade trigger both keep current_index and play that same track       *)
(* again, whatever the shuffle flag.                                        *)
C10_LoopOne ==
    (loop_state = 2 /\ ~is_crossfading) =>
        /\ \A d \in Decks : \A r \in RandDraws(S) :
              pstate[d] = "Playing" =>
                  LET t == media_end(S, d, r) IN
                  /\ t.current_index = current_index
                  /\ t.current_playlist = current_playlist
                  /\ t.source[t.active_player] = SelectedTrack
                  /\ t.pstate[t.active_player] = "Playing"
        /\ \A dp \in PollSamples : \A r \in RandDraws(S) :
              LET t == check_xfade_trigger(S, dp[1], dp[2], r) IN
              t.is_crossfading =>
                  /\ t.current_index = current_index
                  /\ t.current_playlist = current_playlist
                  /\ t.source[1 - t.active_player] = SelectedTrack
                  /\ t.pstate[1 - t.active_player] = "Playing"

(* under loop One with shuffle on, a session fades the playing track into   *)
(* the same track on the other deck with the cursor on a later track        *)
C10_Witness ==
    /\ loop_state = 2 /\ shuffle_state
    /\ is_crossfading
    /\ current_index >= 1
    /\ source[0] = SelectedTrack /\ source[1] = SelectedTrack
    /\ pstate[0] = "Playing" /\ pstate[1] = "Playing"

(* C11: unattended playback of ScenarioLen tracks of ScenarioDuration ms     *)
(* under loop All with shuffle off and the Crossfade effect on.  The cursor *)
(* only ever moves to the next index modulo the playlist length; it moves   *)
(* exactly when a session begins; a session begins in a monitor timeout, at *)
(* the first one that finds the active deck's position past                 *)
(* duration - xfade_duration; no track plays past that poll without a       *)
(* session; a session in progress is never restarted; and the decks swap    *)
(* only when a session completes, so the outgoing deck's end of media       *)
(* inside the session selects nothing.                                      *)
XfadePoint == ScenarioDuration - xfade_duration
SessionBegins == ~is_crossfading /\ is_crossfading'

C11_EndToEnd ==
    /\ [][current_index' # current_index =>
             current_index' = (current_index + 1) % ScenarioLen]_vars
    /\ [][(current_index # -1 /\ current_index' # current_index)
             <=> SessionBegins]_vars
    /\ [][SessionBegins =>
             /\ monitor_due' = MonitorInterval
             /\ active_player' = active_player
             /\ position'[active_player] > XfadePoint
             /\ position'[active_player] - MonitorInterval <= XfadePoint
             /\ source'[1 - active_player] = current_index' + 1
             /\ pstate'[1 - active_player] = "Playing"]_vars
    /\ [][(is_crossfading /\ is_crossfading') =>
             /\ xfade_start_time' = xfade_start_time
             /\ source' = source]_vars
    /\ [][active_player' # active_player =>
             (is_crossfading /\ ~is_crossfading')]_vars
    /\ [](~is_crossfading =>
             position[active_player] <= XfadePoint + MonitorInterval)

(* every track has been played and the cursor has wrapped to index 0;       *)
(* inside the session that fades track 0 in again, the outgoing deck has     *)
(* already played to its end                                                *)
C11_Witness ==
    /\ now > ScenarioLen * XfadePoint
    /\ current_index = 0
    /\ is_crossfading
    /\ pstate[active_player] = "Stopped"
    /\ pstate[1 - active_player] = "Playing"

(* C12: a master-volume change outside a session sets both deck volumes to  *)
(* the new master at once.  One made during a session changes no deck       *)
(* volume; the next tick, however much later it comes, sets the outgoing    *)
(* deck to (1-progress)*master and the incoming deck to progress*master     *)
(* with the new master, or, when it completes the session, both decks to    *)
(* the new master.                                                          *)
TickDelays == {0, CrossInterval, Quantum, xfade_duration}

C12_MasterChange ==
    \A val \in MasterLevels :
        LET t == set_master_vol(S, val) IN
        /\ t.master_volume = val
        /\ ~is_crossfading => t.volume = [d \in Decks |-> val * xfade_duration]
        /\ is_crossfading =>
              /\ t.volume = volume
              /\ cross_timer =>
                    \A dt \in TickDelays :
                        LET u == crossfade_step([t EXCEPT !.now = now + dt])
                            e == Elapsed + dt
                        IN IF e >= xfade_duration
                           THEN u.volume = [d \in Decks |-> val * xfade_duration]
                           ELSE /\ u.volume[active_player] =
                                      (xfade_duration - e) * val
                                /\ u.volume[1 - active_player] = e * val

(* the master volume was lowered during a session after a tick had faded    *)
(* the decks under the full master: the deck volumes still add up to the    *)
(* old master                                                               *)
C12_Witness ==
    /\ is_crossfading
    /\ master_volume < SliderMax
    /\ IncomingVol > 0 /\ OutgoingVol > 0
    /\ OutgoingVol + IncomingVol = VolScale

(* C13: with an empty playlist, next, previous, the coarse poll, the        *)
(* crossfade trigger and an end-of-media report load no deck, start no deck *)
(* and no session, and leave current_index alone; and _play_current with a  *)
(* cursor outside [0, N) returns the state it was given.                    *)
EmptyPlaylistRuns ==
    UNION {{play_next(S, r), play_prev(S, r), trigger_crossfade_next(S, r),
            on_media_status_changed(S, "EndOfMedia", r)}
           \cup {check_xfade_trigger(S, dp[1], dp[2], r) : dp \in PollSamples} :
           r \in RandDraws(S)}

OutOfRange == {-1, Len(current_playlist), Len(current_playlist) + 1}

C13_NoOp ==
    /\ current_playlist = <<>> =>
          \A t \in EmptyPlaylistRuns :
              /\ t.source = source
              /\ \A d \in Decks : t.pstate[d] # "Playing"
              /\ ~t.is_crossfading /\ ~t.cross_timer
              /\ t.xfade_start_time = xfade_start_time
              /\ t.current_index = current_index
              /\ t.current_playlist = <<>>
    /\ \A idx \in OutOfRange :
          LET s == [S EXCEPT !.current_index = idx] IN play_current(s) = s

(* nothing was loaded yet, and shuffle, loop One and the Crossfade effect   *)
(* are all on: each handler takes its own path to the empty playlist        *)
C13_Witness ==
    /\ current_playlist = <<>>
    /\ shuffle_state /\ loop_state = 2 /\ fx_crossfade
    /\ now > 0
    /\ source = [d \in Decks |-> NoSource]

(* C14: outside a session the inactive deck is not playing.                 *)
C14_OneActiveDeck ==
    ~is_crossfading => pstate[1 - active_player] # "Playing"

(* a session was paused and then ran to completion: deck B became the       *)
(* active deck in the paused state and deck A, which had been fading out,   *)
(* is stopped                                                               *)
C14_Witness ==
    /\ ~is_crossfading
    /\ active_player = 1
    /\ pstate[1] = "Paused"
    /\ pstate[0] = "Stopped" /\ source[0] # NoSource
    /\ Elapsed >= xfade_duration

(* C15: when a stage of process raises for an input block, process returns  *)
(* that block, its elements as they were, and changes nothing of the        *)
(* processor but the input meter and the LFO phase; the call after it, in   *)
(* the state the failed call left, returns a processed block: not its       *)
(* input, every sample through the soft clip, the output meter set from it. *)
C15_FailOpen ==
    LET failed == {<<indata, process(P, indata, k)>> :
                      indata \in Blocks, k \in Stages}
    IN /\ \A x \in failed :
             /\ x[2].result = x[1]
             /\ x[2].indata = x[1]
             /\ x[2].st = [P EXCEPT !.phase = x[2].st.phase,
                                    !.input_level = x[2].st.input_level]
       /\ \A st \in {x[2].st : x \in failed} : \A later \in Blocks :
             LET n == process(st, later, 0) IN
             /\ n.result # later
             /\ \A i \in 1 .. Len(n.result.frames) :
                   n.result.frames[i].l.tanh /\ n.result.frames[i].r.tanh
             /\ n.st.output_level = level_out(n.result.frames)
             /\ n.st.preset = preset
             /\ n.st.master_volume = proc_volume

(* under the 8D preset a call has metered its input and advanced the LFO    *)
(* phase, and no call has yet produced output: a stage after the panning    *)
(* raised                                                                   *)
C15_Witness ==
    /\ preset = Motion8D
    /\ phase > 0
    /\ input_level # Zero
    /\ output_level = <<>>

(* C16 as claimed: whenever bass and treble are both within 0.01 of 1.0,    *)
(* process returns soft_clip(input * loudness * master_volume), whatever    *)
(* the other fields of the preset.                                          *)
SoftClipped(indata, loudness, vol) ==
    LET clip(x) == STanh(SScale(<<vol, 100>>, SScale(<<loudness, 1000>>, x)))
        expected(i) == [l |-> clip(indata.frames[i].l),
                        r |-> clip(indata.frames[i].r), lfo |-> NoLfo]
    IN Block("stereo", <<expected(1), expected(2)>>)

Param(key) == Get(preset, key, ParamDefault(key))

C16_EqSkippedAsClaimed ==
    (AbsInt(Param("bass") - 1000) <= 10 /\ AbsInt(Param("treble") - 1000) <= 10) =>
        \A indata \in Blocks :
            process(P, indata, 0).result =
                SoftClipped(indata, Param("loudness"), proc_volume)

(* C16, amended: whenever bass and treble are both less than 0.01 away from *)
(* 1.0, pan_depth is at most 0.01 and spatial is at most 0.01 in magnitude, *)
(* process returns soft_clip(input * loudness * master_volume), whatever    *)
(* pan_speed and the fields process does not read.                          *)
C16_EqSkipped ==
    (/\ AbsInt(Param("bass") - 1000) < 10
     /\ AbsInt(Param("treble") - 1000) < 10
     /\ Param("pan_depth") <= 10
     /\ AbsInt(Param("spatial")) <= 10) =>
        \A indata \in Blocks :
            process(P, indata, 0).result =
                SoftClipped(indata, Param("loudness"), proc_volume)

(* under the preset with every stage at its threshold and the volume        *)
(* lowered, the output meter holds a block that is the soft clip of         *)
(* input * loudness * master_volume                                         *)
C16_Witness ==
    /\ preset = NearNeutral
    /\ proc_volume = 40
    /\ \E indata \in Blocks :
          output_level = SoftClipped(indata, 1200, 40).frames

(* C17: with 8D panning active, a call on a block of N frames leaves the    *)
(* phase at (phi0 + 2 pi pan_speed N / R) mod 2 pi.                         *)
C17_PhaseAdvance ==
    Above(Param("pan_depth")) =>
        \A indata \in Blocks :
            process(P, indata, 0).st.phase =
                (phase + Param("pan_speed") * Len(indata.frames)) % PhaseTurn

(* C18: every parameter a process call has read came from the same preset   *)
(* dict.                                                                    *)
C18_WholesaleSwap ==
    \A k1, k2 \in DOMAIN cb.read_from : cb.read_from[k1] = cb.read_from[k2]

----------------------------------------------------------------------------
(* C19: the slot "--- Custom / Modified ---" is the live state of the last *)
(* live edit.  From every reachable state, a live edit (_set_param from    *)
(* the dial or the slider, _toggle_fx from the tree) leaves in the slot    *)
(* the intensity, the wet/dry and the set of enabled effects the engine    *)
(* has right after it and changes no other preset; selecting any preset    *)
(* changes no entry of the table, also when it changes the live state, so  *)
(* the slot keeps the edited state until the next live edit.               *)

Live(e) ==
    PresetEntry(e.global_intensity, e.wet_dry,
                {k \in effect_items : is_enabled(e, k)})

LiveEdits(e) ==
    {set_param([e EXCEPT !.dial = v], "global_intensity", v) :
         v \in DialSamples \cup {e.dial}}
    \cup {set_param([e EXCEPT !.mix = v], "wet_dry", v) :
              v \in MixSamples \cup {e.mix}}
    \cup {toggle_fx(click(e, item), item) : item \in TreeSamples}

C19_CustomSlot ==
    /\ \A t \in LiveEdits(E) :
          /\ t.PRESETS = [PRESETS EXCEPT ![Custom] = Live(t)]
          /\ \A name \in DOMAIN PRESETS :
                on_preset_changed(t, name).PRESETS[Custom] = Live(t)
    /\ \A name \in DOMAIN PRESETS \cup {"Unknown"} :
          on_preset_changed(E, name).PRESETS = PRESETS

(* a preset was selected after a live edit: the slot holds the edited *)
(* state, the engine that of the preset                               *)
C19_Witness ==
    /\ combo = "Club Master"
    /\ PRESETS[Custom] = PresetEntry(100, 0, {"Gain"})
    /\ Live(E) = PresetEntry(85, 80, InitialPresets["Club Master"].fx)
    /\ "Gain" \notin DOMAIN enabled

----------------------------------------------------------------------------
(* C20: with wet_dry = 0 apply_chain returns clip(dry).  In every          *)
(* reachable state of the effect panel in which wet/dry is 0, for every    *)
(* buffer, sample rate and intensity, the result of apply_chain is the     *)
(* input with each sample clipped to [-1, 1], whatever effects are enabled *)
(* (none included), and the caller's buffer is left as it was.             *)

(* a buffer with samples outside [-1, 1], and one without frames *)
HotWave == <<<<Plain(<<3, 2>>), Plain(<<-5, 4>>)>>, <<Plain(Half), Plain(Zero)>>>>
NoFrames == <<>>
ChainBuffers == {f.data : f \in LoadSamples} \cup {HotWave, NoFrames}
WavRates == {0, 8000, 44100}
Intensities == {0, 33, 72, 100}

Clipped(audio) ==
    [n \in DOMAIN audio |-> [c \in DOMAIN audio[n] |->
        LET q == audio[n][c].v
        IN Plain(IF QLess(<<1, 1>>, q) THEN <<1, 1>>
                 ELSE IF QLess(q, <<-1, 1>>) THEN <<-1, 1>> ELSE q)]]

C20_DryAtZeroWet ==
    wet_dry = 0 =>
        \A audio \in ChainBuffers, sr \in WavRates, i \in Intensities :
            LET r == apply_chain([E EXCEPT !.global_intensity = i], audio, sr)
            IN /\ r.result = Clipped(audio)
               /\ r.audio = audio

(* an export at wet/dry 0 with Gain, the limiter and the compressor on *)
C20_Witness ==
    /\ wet_dry = 0
    /\ is_enabled(E, "Gain") /\ is_enabled(E, "Compressor")
    /\ is_enabled(E, "Peak limiter")
    /\ ~exported.none
    /\ audio_data.data = StereoWave
    /\ exported.audio = StereoWave

----------------------------------------------------------------------------
(* C21: with Gain enabled the chain multiplies every sample by the gain    *)
(* of a decibel value that maps the intensity linearly from [0, 1] onto    *)
(* [-6 dB, +18 dB]: -6 dB at intensity 0, +18 dB at intensity 1.           *)

ClaimedGainDb(i) == Frac(2400 * i - 60000, 10000)

C21_GainMap ==
    is_enabled(E, "Gain") =>
        \A f \in LoadSamples :
            LET y == chain_gain(E, chain_copy(f.data)).y
            IN \A n \in DOMAIN y : \A c \in DOMAIN y[n] :
                  y[n][c] = db_to_lin(f.data[n][c],
                                      ClaimedGainDb(global_intensity))

----------------------------------------------------------------------------
(* C22: an export applies the engine state of the moment it started.  The  *)
(* result a finished apply_chain call hands over is the one the chain      *)
(* computes from the enabled set, the intensity and the wet/dry that the   *)
(* engine had when _export ran, whatever the panel did in between.         *)
C22_Snapshot ==
    job.pc = "emit" =>
        job.result = apply_chain(job.start, job.audio, job.sr).result

----------------------------------------------------------------------------
----------------------------------------------------------------------------
(* C23: a device failure is reported, not retried.  A thread whose stream  *)
(* raised while opening or running has emitted the error exactly once, and *)
(* nothing after it but the OFFLINE status, with which it terminates; it   *)
(* holds no stream and has tried to open one at most once.  Streams are    *)
(* opened only by threads that toggle_power started: there are never more  *)
(* attempts to open than toggle_power calls that started the core.         *)
Threads == DOMAIN core.threads

Errors(log) == Cardinality({k \in DOMAIN log : log[k] = "error"})

RECURSIVE Opens(_)
Opens(n) == IF n = 0 THEN 0 ELSE core.threads[n].opens + Opens(n - 1)

ReportedOnce(t) ==
    /\ t.opens <= 1
    /\ t.failed =>
          /\ t.pc \in {"offline", "finished"}
          /\ ~t.stream
          /\ Errors(t.log) = 1
          /\ t.pc = "offline" => t.log[Len(t.log)] = "error"
          /\ t.pc = "finished" =>
                /\ t.log[Len(t.log)] = "OFFLINE"
                /\ t.log[Len(t.log) - 1] = "error"

C23_ReportedNotRetried ==
    /\ \A i \in Threads : ReportedOnce(core.threads[i])
    /\ Opens(Len(core.threads)) <= core.created

(* the first thread failed to open its stream and terminated, and a later *)
(* toggle_power started a second thread, which opened a stream            *)
C23_Witness ==
    /\ core.created = 2
    /\ core.threads[1].failed
    /\ core.threads[1].pc = "finished"
    /\ core.threads[1].log = <<"error", "OFFLINE">>
    /\ core.threads[2].stream

(* C25: the FFT bin partitions are rebuilt before the next process call    *)
(* and never race with one.  While a process call is in flight on a        *)
(* thread's processor, its block size is the stream's, freqs, bass_indices *)
(* and treble_indices are those of that block size and the stream's sample *)
(* rate, and run is not at one of the statements that rebuild them.        *)
Rebuild == {"block_size", "freqs", "bass", "treble"}

Rebuilt(t) ==
    /\ t.block_size = bs(t)
    /\ t.freqs = Grid(bs(t), t.rate)
    /\ t.bass_indices = Grid(bs(t), t.rate)
    /\ t.treble_indices = Grid(bs(t), t.rate)

C25_PartitionsRebuilt ==
    \A i \in Threads :
        core.threads[i].inflight =>
            /\ Rebuilt(core.threads[i])
            /\ core.threads[i].pc \notin Rebuild

(* a process call in flight on a stream of 8192-frame blocks, whose *)
(* processor was built for 4096                                     *)
C25_Witness ==
    \E i \in Threads :
        /\ core.threads[i].inflight
        /\ core.threads[i].buffer_mode = "stable"
        /\ core.threads[i].block_size = StableBlockSize


----------------------------------------------------------------------------
(* C24: WAV round trip.  For a buffer whose samples are 16-bit PCM values  *)
(* k/32768 with k in -32768 .. 32767, read_wav of the file write_wav made  *)
(* returns the rate written, the buffer's channel count and frame count,   *)
(* and samples each within 1/32768 of the original.  The samples read are  *)
(* numerators over 2^31, so 1/32768 is 65536 of their units.               *)
Pcm16(audio) ==
    \A i \in DOMAIN audio.x :
        audio.x[i] >= 0 - PcmScale /\ audio.x[i] <= PcmScale - 1

Near(k, v) ==
    LET d == (k * 65536) - v
    IN d <= 65536 /\ d >= 0 - 65536

C24_RoundTrip ==
    (wav.pc = "read" /\ Pcm16(wav.audio)) =>
        /\ wav.back.sr = wav.sr
        /\ wav.back.ch = IF wav.audio.ndim = 1 THEN 1 ELSE wav.audio.ch
        /\ wav.back.frames = Frames(wav.audio)
        /\ Len(wav.back.y) = wav.back.frames * wav.back.ch
        /\ \A i \in DOMAIN wav.audio.x : Near(wav.audio.x[i], wav.back.y[i])

(* a stereo buffer of two frames holding both ends of the 16-bit range, *)
(* written and read back                                                *)
C24_Witness ==
    /\ wav.pc = "read"
    /\ wav.audio = Buffer(2, 2, <<0 - 32768, 32767, 1, 0 - 1>>)
    /\ wav.back.frames = 2
    /\ wav.back.y[1] = 0 - 2147483647


----------------------------------------------------------------------------
(* C26: an end-of-media notification from either deck that arrives while a *)
(* crossfade session is in progress is ignored: the handler returns the    *)
(* state it was given, so the cursor, the decks' sources and playback      *)
(* states and the session are as the ending deck left them.  Outside a     *)
(* session the notification replays the active deck under loop One and     *)
(* otherwise moves the cursor to _get_next_index, when there is one.       *)
EndOfMediaRuns(s) ==
    {on_media_status_changed(s, "EndOfMedia", r) : r \in RandDraws(s)}

C26_EndOfMediaIgnored ==
    /\ is_crossfading =>
          /\ EndOfMediaRuns(S) = {S}
          /\ \A d \in Decks : EndOfMediaRuns(stop(S, d)) = {stop(S, d)}
    /\ ~is_crossfading =>
          \A r \in RandDraws(S) :
              LET t == on_media_status_changed(S, "EndOfMedia", r)
                  idx == get_next_index(S, TRUE, r)
              IN /\ loop_state = 2 =>
                       /\ t.current_index = current_index
                       /\ t = play(S, current_player(S))
                 /\ (loop_state # 2 /\ idx # -1) => t.current_index = idx
                 /\ (loop_state # 2 /\ idx = -1) =>
                       /\ t.current_index = current_index
                       /\ \A d \in Decks : t.pstate[d] = "Stopped"

(* the outgoing deck reached the end of its track during a session: it is *)
(* stopped, the incoming deck plays on and the session is still running   *)
C26_Witness ==
    /\ is_crossfading /\ cross_timer
    /\ pstate[active_player] = "Stopped"
    /\ pstate[1 - active_player] = "Playing"
    /\ current_index >= 0


----------------------------------------------------------------------------
(* C28: cursor validity.  After any sequence of drops, library selections, *)
(* next and previous commands, shuffle and loop toggles, polls and         *)
(* end-of-media events, current_index is -1 exactly when the playlist is   *)
(* empty and otherwise lies in 0 .. len(current_playlist) - 1.             *)
C28_CursorValid ==
    /\ (current_index = -1) <=> (current_playlist = <<>>)
    /\ current_playlist # <<>> =>
          current_index >= 0 /\ current_index < Len(current_playlist)

(* the playlist ran out without loop or shuffle: _play_next found no next *)
(* index, stopped both decks and left the cursor on the last track        *)
C28_Witness ==
    /\ Len(current_playlist) >= 2
    /\ current_index = Len(current_playlist) - 1
    /\ loop_state = 0 /\ ~shuffle_state
    /\ \A d \in Decks : pstate[d] = "Stopped"
    /\ source[active_player] = current_playlist[Len(current_playlist)]


----------------------------------------------------------------------------
(* C29: in every reachable state in which no crossfade is in progress the *)
(* volumes of deck A and deck B both equal the master volume.             *)
C29_LevelsAtMaster ==
    ~is_crossfading => \A d \in Decks : volume[d] = MasterVol(S)

(* a session that faded deck B in under a lowered master has completed: *)
(* deck B is the active deck and both decks are at the master volume    *)
C29_Witness ==
    /\ ~is_crossfading /\ ~cross_timer
    /\ active_player = 1
    /\ master_volume > 0 /\ master_volume < SliderMax
    /\ pstate[1] = "Playing"
    /\ \A d \in Decks : volume[d] = MasterVol(S)


----------------------------------------------------------------------------
(* C30: when playback was paused during a crossfade session, so that both  *)
(* decks are paused, _toggle_playback resumes both decks: the incoming     *)
(* deck plays again and is the playing active deck once the session        *)
(* completes and the decks are swapped.                                    *)
PausedInSession ==
    is_crossfading /\ \A d \in Decks : pstate[d] = "Paused"

C30_ResumeBoth ==
    PausedInSession =>
        \A d \in Decks : toggle_playback(S).pstate[d] = "Playing"

====
